---- MODULE Spec2Model ----
(***************************************************************************)
(* Model of the Nanoleaf integration (uc_intg_nanoleaf): the runtime       *)
(* command router of remote.py (vocabulary, dispatch, throttle, fleet      *)
(* fan-out), the command-name sanitizer, and the setup flow of setup.py    *)
(* with its concurrent pairing batch and the persisted configuration of    *)
(* config.py.                                                              *)
(*                                                                         *)
(* Strings are sequences of one-character strings, so that prefix tests,   *)
(* replacement and stripping are computed as the Python code computes      *)
(* them.  Time is counted in ticks of 0.05 s in the router and in ticks    *)
(* of 30 s in the pairing batch.                                           *)
(***************************************************************************)
EXTENDS Integers, Sequences, FiniteSets, TLC

VARIABLES
    \* ---- sanitizer harness (NanoleafRemote._clean_command_name) ----
    rawName,          \* the display name handed to the sanitizer
    cleanOnce,        \* _clean_command_name(rawName), or <<"?">> before the call
    cleanTwice,       \* _clean_command_name(cleanOnce)
    dumps,            \* get_all_config on two configurations: what was stored,
                      \* what was returned, what is stored afterwards
    described,        \* an attribute bag and the family and SKU that
                      \* NanoleafConfig and NanoleafDevice derive from it
    \* ---- NanoleafRemote ----
    devices,          \* self._discovered_devices: the records in dict order
    simple_commands,  \* the vocabulary computed by the constructor
    now,              \* time.time(), in ticks
    global_throttle,  \* self._global_throttle
    device_throttle,  \* self._device_throttle: 0 stands for "no entry"
    device_states,    \* self._device_states: "none" stands for "no entry"
    panelOn,          \* the power state each physical device really has
    last,             \* record of the command handled last (history)
    lastTx,           \* per device: time a command last reached its transport, -1 never
    lastIndTx,        \* same, individually targeted commands only
    lastBrightness,   \* per device: value of the last successful set_brightness, 0 none
    co,               \* the command coroutines followed step by step: where each
                      \* stands, and the order in which their operations ended
    \* ---- NanoleafSetup / NanoleafConfig ----
    setup_phase,      \* self._setup_phase
    discovered,       \* self._discovered_devices of the setup (list of (ip, port))
    selected,         \* self._selected_devices
    config,           \* NanoleafConfig.devices: the records in dict order
    batch,            \* the pairing batch: its state and, per candidate, its task
    elapsed,          \* time the awaited batch has been running, in ticks of 30 s
    setupOut,         \* the SetupAction returned last
    report,           \* successful_devices / failed_devices of the last batch
    callbacks,        \* number of invocations of the completion callback
    session           \* history: the message handled last and how the session stands

routerVars == <<devices, simple_commands, now, global_throttle, device_throttle,
                device_states, panelOn, last, lastTx, lastIndTx, lastBrightness, co>>
nameVars == <<rawName, cleanOnce, cleanTwice, dumps, described>>
setupVars == <<setup_phase, discovered, selected, config, batch, elapsed,
               setupOut, report, callbacks, session>>
vars == <<rawName, cleanOnce, cleanTwice, dumps, described,
          devices, simple_commands, now, global_throttle, device_throttle,
          device_states, panelOn, last, lastTx, lastIndTx, lastBrightness, co,
          setup_phase, discovered, selected, config, batch, elapsed,
          setupOut, report, callbacks, session>>

-----------------------------------------------------------------------------
(* Characters and Python string primitives.                                *)

LowerLetters == <<"a","b","c","d","e","f","g","h","i","j","k","l","m",
                  "n","o","p","q","r","s","t","u","v","w","x","y","z">>
UpperLetters == <<"A","B","C","D","E","F","G","H","I","J","K","L","M",
                  "N","O","P","Q","R","S","T","U","V","W","X","Y","Z">>
Digits == <<"0","1","2","3","4","5","6","7","8","9">>

Range(s) == {s[i] : i \in DOMAIN s}

\* Characters outside ASCII, each written as one symbol:
\*   U_kra     U+0138, a lowercase letter that has no uppercase form
\*   U_eszett  U+00DF, a lowercase letter whose uppercase form is "SS"
\*   U_iota    U+0390, a lowercase letter whose uppercase form is U+0399
\*             followed by the combining marks U+0308 and U+0301
U_kra == "kra"
U_eszett == "eszett"
U_iota == "iota_dialytika_tonos"
U_IOTA == "IOTA"
U_dialytika == "combining_dialytika"
U_tonos == "combining_tonos"

RECURSIVE Flatten(_)
Flatten(ss) == IF Len(ss) = 0 THEN <<>> ELSE Head(ss) \o Flatten(Tail(ss))

\* str.upper() on one character: the characters it becomes
UpperChar(c) ==
    IF \E i \in DOMAIN LowerLetters : LowerLetters[i] = c
    THEN <<UpperLetters[CHOOSE i \in DOMAIN LowerLetters : LowerLetters[i] = c]>>
    ELSE IF c = U_eszett THEN <<"S", "S">>
    ELSE IF c = U_iota THEN <<U_IOTA, U_dialytika, U_tonos>>
    ELSE <<c>>

\* str.upper()
Upper(s) == Flatten([i \in DOMAIN s |-> UpperChar(s[i])])

\* str.isalnum() on one character
IsAlnum(c) ==
    c \in Range(LowerLetters) \cup Range(UpperLetters) \cup Range(Digits)
           \cup {U_kra, U_eszett, U_iota, U_IOTA}

\* str.islower() on one character
IsLower(c) == c \in Range(LowerLetters) \cup {U_kra, U_eszett, U_iota}

\* str.isdigit() on a whole string (false for the empty string)
IsDigitStr(s) == Len(s) > 0 /\ \A i \in DOMAIN s : s[i] \in Range(Digits)

DigitVal(c) == (CHOOSE i \in DOMAIN Digits : Digits[i] = c) - 1

\* int(s) for a string of digits
RECURSIVE IntOf(_)
IntOf(s) ==
    IF Len(s) = 0 THEN 0
    ELSE 10 * IntOf(SubSeq(s, 1, Len(s) - 1)) + DigitVal(s[Len(s)])

\* s.startswith(p)
StartsWith(s, p) == Len(p) <= Len(s) /\ SubSeq(s, 1, Len(p)) = p

\* (p in s): substring test
Contains(s, p) ==
    \E i \in 1..(Len(s) - Len(p) + 1) : SubSeq(s, i, i + Len(p) - 1) = p

\* s.replace(old, new): leftmost non-overlapping occurrences, one pass
RECURSIVE Replace(_, _, _)
Replace(s, old, new) ==
    IF Len(s) = 0 THEN <<>>
    ELSE IF StartsWith(s, old)
         THEN new \o Replace(SubSeq(s, Len(old) + 1, Len(s)), old, new)
         ELSE <<s[1]>> \o Replace(Tail(s), old, new)

\* s.strip("_"), in the two halves
RECURSIVE LStrip(_)
LStrip(s) == IF Len(s) > 0 /\ s[1] = "_" THEN LStrip(Tail(s)) ELSE s
RECURSIVE RStrip(_)
RStrip(s) ==
    IF Len(s) > 0 /\ s[Len(s)] = "_" THEN RStrip(SubSeq(s, 1, Len(s) - 1)) ELSE s
Strip(s) == RStrip(LStrip(s))

\* s.split("_")
RECURSIVE Split(_)
Split(s) ==
    IF ~Contains(s, <<"_">>) THEN <<s>>
    ELSE LET i == CHOOSE k \in DOMAIN s :
                      s[k] = "_" /\ \A j \in 1..(k - 1) : s[j] # "_"
         IN <<SubSeq(s, 1, i - 1)>> \o Split(SubSeq(s, i + 1, Len(s)))

-----------------------------------------------------------------------------
(* NanoleafRemote._clean_command_name                                      *)

\* "".join(c if c.isalnum() else "_" for c in name.upper())
MapChars(name) ==
    LET upper == Upper(name)
    IN [i \in DOMAIN upper |-> IF IsAlnum(upper[i]) THEN upper[i] ELSE "_"]

\* while "__" in cleaned: cleaned = cleaned.replace("__", "_")
RECURSIVE Collapse(_)
Collapse(s) ==
    IF Contains(s, <<"_","_">>)
    THEN Collapse(Replace(s, <<"_","_">>, <<"_">>))
    ELSE s

\* variant: the final strip is left out
_clean_command_name_unstripped(name) == Collapse(MapChars(name))

_clean_command_name(name) == Strip(Collapse(MapChars(name)))

-----------------------------------------------------------------------------
(* Words of the command grammar, as character sequences.                   *)

US == <<"_">>
W_ON == <<"O","N">>
W_OFF == <<"O","F","F">>
W_TOGGLE == <<"T","O","G","G","L","E">>
W_IDENTIFY == <<"I","D","E","N","T","I","F","Y">>
W_UP == <<"U","P">>
W_DOWN == <<"D","O","W","N">>
W_BRIGHTNESS_ == <<"B","R","I","G","H","T","N","E","S","S","_">>
W_COLOR_ == <<"C","O","L","O","R","_">>
W_TEMP_ == <<"T","E","M","P","_">>
W_EFFECT_ == <<"E","F","F","E","C","T","_">>
W_ALL_ == <<"A","L","L","_">>
W_RED == <<"R","E","D">>
W_GREEN == <<"G","R","E","E","N">>
W_BLUE == <<"B","L","U","E">>
W_WHITE == <<"W","H","I","T","E">>
W_WARM == <<"W","A","R","M">>
W_COOL == <<"C","O","O","L">>
W_PURPLE == <<"P","U","R","P","L","E">>
W_YELLOW == <<"Y","E","L","L","O","W">>
W_2700K == <<"2","7","0","0","K">>
W_4000K == <<"4","0","0","0","K">>
W_6500K == <<"6","5","0","0","K">>
W_25 == <<"2","5">>
W_50 == <<"5","0">>
W_75 == <<"7","5">>
W_100 == <<"1","0","0">>
NO_DEVICES == <<"N","O","_","D","E","V","I","C","E","S">>

ALL_ON == W_ALL_ \o W_ON
ALL_OFF == W_ALL_ \o W_OFF
ALL_TOGGLE == W_ALL_ \o W_TOGGLE
ALL_IDENTIFY == W_ALL_ \o W_IDENTIFY
FleetTokens == {ALL_ON, ALL_OFF, ALL_TOGGLE, ALL_IDENTIFY}

-----------------------------------------------------------------------------
(* NanoleafRemote._generate_simple_commands                                *)

\* effects_list[:10]
EffectCap == 10
\* variant: every effect of the list is taken
FirstEffects_all(info) == info.effects_list

\* effects_list[:10]
FirstEffects(info) ==
    SubSeq(info.effects_list, 1,
           IF Len(info.effects_list) < EffectCap
           THEN Len(info.effects_list) ELSE EffectCap)

\* The action suffixes emitted for one device (everything after "<clean_name>_").
DeviceSuffixes(info) ==
    {W_ON, W_OFF, W_TOGGLE}
    \cup (IF info.supports_brightness
          THEN {W_BRIGHTNESS_ \o w : w \in {W_UP, W_DOWN, W_25, W_50, W_75, W_100}}
          ELSE {})
    \cup (IF info.supports_color
          THEN {W_COLOR_ \o w : w \in {W_RED, W_GREEN, W_BLUE, W_WHITE,
                                       W_WARM, W_COOL, W_PURPLE, W_YELLOW}}
          ELSE {})
    \cup (IF info.supports_color_temp
          THEN {W_TEMP_ \o w : w \in {W_WARM, W_COOL, W_2700K, W_4000K, W_6500K}}
          ELSE {})
    \cup (IF info.supports_effects
          THEN {W_EFFECT_ \o _clean_command_name(e) : e \in Range(FirstEffects(info))}
          ELSE {})
    \cup {W_IDENTIFY}

\* The display names the model's devices carry.
N_Desk == <<"D","e","s","k">>
N_desk == <<"d","e","s","k","!">>
N_TV == <<"T","V">>
N_Bed == <<"B","e","d">>
N_Lamp == <<"L","a","m","p">>
N_Lamp2 == <<"L","a","m","p"," ","2">>
N_All == <<"A","l","l">>
N_AllLamps == <<"A","l","l"," ","L","a","m","p","s">>

\* The addresses the discovery reports.
IP_1 == <<"1","0",".","1">>
IP_2 == <<"1","0",".","2">>
IP_3 == <<"1","0",".","3">>

\* basic_info = {"name": f"Nanoleaf {ip_address}", "model": "Unknown"}
BasicName(ip) == <<"N","a","n","o","l","e","a","f"," ">> \o ip

KnownNames == {N_Desk, N_desk, N_TV, N_Bed, N_Lamp, N_Lamp2, N_All, N_AllLamps,
               BasicName(IP_1), BasicName(IP_2), BasicName(IP_3)}

\* clean_name / device_prefix of a device record: _clean_command_name(name),
\* which the code recomputes at every use and the model computes once per name.
PrefixTable == [n \in KnownNames |-> _clean_command_name(n)]
DevicePrefix(info) == PrefixTable[info.name]

Token(prefix, suffix) == prefix \o US \o suffix

DeviceCommands(info) == {Token(DevicePrefix(info), s) : s \in DeviceSuffixes(info)}

\* The code returns sorted(list(set(commands))): the set is what is modelled.
_generate_simple_commands(devs) ==
    IF Len(devs) = 0 THEN {NO_DEVICES}
    ELSE UNION {DeviceCommands(devs[i]) : i \in DOMAIN devs}
         \cup (IF Len(devs) > 1 THEN FleetTokens ELSE {})

-----------------------------------------------------------------------------
(* The transport client (client.py) as the router sees it.  A call is      *)
(* logged with its outcome, which the network decides: "ok" (HTTP 204 or   *)
(* 200), "fail" (the client returns False / None) or "raise" (connect()    *)
(* raises before the request is made: it is outside the client's try).     *)
(* Call arguments are integers: power 1/0, brightness, hue, saturation,    *)
(* kelvin, the index of the effect in the device's effect list.            *)

Call(i, op, arg, res) == [dev |-> i, op |-> op, arg |-> arg, res |-> res]

\* The outcome of one client call as the caller's value.
ResOf(w) == IF w = "ok" THEN "true" ELSE IF w = "fail" THEN "false" ELSE "raise"

Clamp(lo, x, hi) == IF x < lo THEN lo ELSE IF x > hi THEN hi ELSE x

DefaultBrightness == 100
BrightnessStep == 20
FallbackBrightness == 50

\* NanoleafDevice.__init__: brightness is read from device_info["state"]; the
\* records of the persisted configuration carry no "state", so it is the default.
NanoleafDevice_brightness(info) == DefaultBrightness

\* What one coroutine did: its value ("true", "false", or "raise" for an
\* exception leaving it), the transport calls it issued, and the cache entry
\* and the panel's power state it leaves behind.
Done(res, calls, cache, on) == [res |-> res, calls |-> calls, cache |-> cache, on |-> on]

\* NanoleafClient.turn_on / turn_off via _set_power, followed by the router's
\* "if result: self._device_states[device_id] = ..." 
PowerCmd(i, on, w, cache, panel) ==
    LET c == Call(i, "set_power", IF on THEN 1 ELSE 0, w)
    IN IF w = "ok"
       THEN Done("true", <<c>>, IF on THEN "on" ELSE "off", on)
       ELSE Done(ResOf(w), <<c>>, cache, panel)

\* variant: a failed read is answered with "off", whatever was observed before
_get_device_state_blind(i, r, cache, panel) ==
    IF r = "ok"
    THEN [state |-> panel, cache |-> IF panel THEN "on" ELSE "off",
          calls |-> <<Call(i, "get_device_info", 0, r)>>]
    ELSE [state |-> FALSE, cache |-> cache,
          calls |-> <<Call(i, "get_device_info", 0, r)>>]

\* NanoleafRemote._get_device_state: [state, cache, calls]
_get_device_state(i, r, cache, panel) ==
    IF r = "ok"
    THEN [state |-> panel, cache |-> IF panel THEN "on" ELSE "off",
          calls |-> <<Call(i, "get_device_info", 0, r)>>]
    ELSE [state |-> (cache = "on"), cache |-> cache,
          calls |-> <<Call(i, "get_device_info", 0, r)>>]

\* the TOGGLE branch, shared by _execute_device_action and _execute_device_action_safe
ToggleCmd(i, net, cache, panel) ==
    LET g == _get_device_state(i, net.r, cache, panel)
        p == PowerCmd(i, ~g.state, net.w1, g.cache, panel)
    IN Done(p.res, g.calls \o p.calls, p.cache, p.on)

ColorMap(name) ==
    CASE name = W_RED -> <<0, 100>>
      [] name = W_GREEN -> <<120, 100>>
      [] name = W_BLUE -> <<240, 100>>
      [] name = W_WHITE -> <<0, 0>>
      [] name = W_PURPLE -> <<300, 100>>
      [] name = W_YELLOW -> <<60, 100>>
      [] name = W_WARM -> <<30, 50>>
      [] name = W_COOL -> <<210, 30>>
      [] OTHER -> <<>>

\* the COLOR_ branch: the results of set_hue and set_saturation are not looked at
ColorCmd(i, action, net, cache, panel) ==
    LET hs == ColorMap(Replace(action, W_COLOR_, <<>>))
        h == Call(i, "set_hue", Clamp(0, hs[1], 360), net.w1)
        s == Call(i, "set_saturation", Clamp(0, hs[2], 100), net.w2)
    IN IF hs = <<>> THEN Done("false", <<>>, cache, panel)
       ELSE IF net.w1 = "raise" THEN Done("raise", <<h>>, cache, panel)
       ELSE IF net.w2 = "raise" THEN Done("raise", <<h, s>>, cache, panel)
       ELSE Done("true", <<h, s>>, cache, panel)

TempMap(name) ==
    CASE name = W_WARM -> 2700
      [] name = W_COOL -> 6500
      [] name = W_2700K -> 2700
      [] name = W_4000K -> 4000
      [] name = W_6500K -> 6500
      [] OTHER -> 0

\* variant: every family is sent the colour temperature
TempCmd_direct(i, info, action, net, cache, panel) ==
    LET kelvin == TempMap(Replace(action, W_TEMP_, <<>>))
    IN IF kelvin = 0 THEN Done("false", <<>>, cache, panel)
       ELSE Done(ResOf(net.w1),
                 <<Call(i, "set_color_temperature", Clamp(1200, kelvin, 6500), net.w1)>>,
                 cache, panel)

\* the TEMP_ branch
TempCmd(i, info, action, net, cache, panel) ==
    IF info.device_type = "elements"
    THEN LET color_action ==
                IF action = W_TEMP_ \o W_WARM THEN W_COLOR_ \o W_WARM
                ELSE IF action = W_TEMP_ \o W_COOL THEN W_COLOR_ \o W_COOL
                ELSE IF Contains(action, W_2700K) THEN W_COLOR_ \o W_WARM
                ELSE IF Contains(action, W_4000K) \/ Contains(action, W_6500K)
                     THEN W_COLOR_ \o W_COOL
                ELSE <<>>
         IN IF color_action = <<>> THEN Done("false", <<>>, cache, panel)
            ELSE LET c == ColorCmd(i, color_action, net, cache, panel)
                 \* the inner call catches its own exception and returns False
                 IN IF c.res = "raise" THEN [c EXCEPT !.res = "false"] ELSE c
    ELSE LET kelvin == TempMap(Replace(action, W_TEMP_, <<>>))
         IN IF kelvin = 0 THEN Done("false", <<>>, cache, panel)
            ELSE Done(ResOf(net.w1),
                      <<Call(i, "set_color_temperature", Clamp(1200, kelvin, 6500), net.w1)>>,
                      cache, panel)

\* the BRIGHTNESS_ branch
BrightnessCmd(i, info, action, net, cache, panel) ==
    LET parts == Split(action)
        digits == {k \in DOMAIN parts : IsDigitStr(parts[k])}
        brightness ==
            IF Contains(action, W_UP)
            THEN (IF NanoleafDevice_brightness(info) + BrightnessStep > 100 THEN 100
                  ELSE NanoleafDevice_brightness(info) + BrightnessStep)
            ELSE IF Contains(action, W_DOWN)
            THEN (IF NanoleafDevice_brightness(info) - BrightnessStep < 1 THEN 1
                  ELSE NanoleafDevice_brightness(info) - BrightnessStep)
            ELSE IF digits = {} THEN FallbackBrightness
            ELSE IntOf(parts[CHOOSE k \in digits : \A j \in digits : k <= j])
    IN Done(ResOf(net.w1),
            <<Call(i, "set_brightness", Clamp(1, brightness, 100), net.w1)>>,
            cache, panel)

\* the EFFECT_ branch
EffectCmd(i, info, action, net, cache, panel) ==
    LET effect_name == Replace(Replace(action, W_EFFECT_, <<>>), US, <<" ">>)
        effects_list == info.effects_list
        matches == {k \in DOMAIN effects_list :
                      _clean_command_name(effects_list[k]) = _clean_command_name(effect_name)}
        direct == {k \in DOMAIN effects_list : effects_list[k] = effect_name}
        pick(S) == CHOOSE k \in S : \A j \in S : k <= j
    IN IF matches # {}
       THEN Done(ResOf(net.w1), <<Call(i, "set_effect", pick(matches), net.w1)>>, cache, panel)
       ELSE IF direct # {}
       THEN Done(ResOf(net.w1), <<Call(i, "set_effect", pick(direct), net.w1)>>, cache, panel)
       ELSE Done("false", <<>>, cache, panel)

\* NanoleafRemote._execute_device_action (device_id is always passed by the caller)
_execute_device_action(i, info, action, net, cache, panel) ==
    LET body ==
          IF action = W_ON THEN PowerCmd(i, TRUE, net.w1, cache, panel)
          ELSE IF action = W_OFF THEN PowerCmd(i, FALSE, net.w1, cache, panel)
          ELSE IF action = W_TOGGLE THEN ToggleCmd(i, net, cache, panel)
          ELSE IF action = W_IDENTIFY
               THEN Done(ResOf(net.w1), <<Call(i, "identify", 0, net.w1)>>, cache, panel)
          ELSE IF StartsWith(action, W_BRIGHTNESS_)
               THEN BrightnessCmd(i, info, action, net, cache, panel)
          ELSE IF StartsWith(action, W_COLOR_)
               THEN ColorCmd(i, action, net, cache, panel)
          ELSE IF StartsWith(action, W_TEMP_)
               THEN TempCmd(i, info, action, net, cache, panel)
          ELSE IF StartsWith(action, W_EFFECT_)
               THEN EffectCmd(i, info, action, net, cache, panel)
          ELSE Done("false", <<>>, cache, panel)
    \* except Exception: return False
    IN IF body.res = "raise" THEN [body EXCEPT !.res = "false"] ELSE body

-----------------------------------------------------------------------------
(* Throttle guard and dispatch.                                            *)

\* cool-downs in ticks of 0.05 s: 0.1 s and 0.3 s
GlobalCooldown == 2
DeviceCooldown == 6

\* variant: the device cool-down is not consulted
_check_throttle_global_only(i, t, gt, dt) ==
    IF t - gt < GlobalCooldown THEN [ok |-> FALSE, gt |-> gt, dt |-> dt]
    ELSE [ok |-> TRUE, gt |-> t, dt |-> [dt EXCEPT ![i] = t]]

\* variant: a gap equal to the cool-down is still refused
_check_throttle_inclusive(i, t, gt, dt) ==
    IF t - gt <= GlobalCooldown THEN [ok |-> FALSE, gt |-> gt, dt |-> dt]
    ELSE IF t - dt[i] <= DeviceCooldown THEN [ok |-> FALSE, gt |-> gt, dt |-> dt]
    ELSE [ok |-> TRUE, gt |-> t, dt |-> [dt EXCEPT ![i] = t]]

\* variant: a refused acquire restarts the global cool-down
_check_throttle_restart(i, t, gt, dt) ==
    IF t - gt < GlobalCooldown THEN [ok |-> FALSE, gt |-> t, dt |-> dt]
    ELSE IF t - dt[i] < DeviceCooldown THEN [ok |-> FALSE, gt |-> t, dt |-> dt]
    ELSE [ok |-> TRUE, gt |-> t, dt |-> [dt EXCEPT ![i] = t]]

\* variant: a granted acquire records neither time stamp
_check_throttle_unrecorded(i, t, gt, dt) ==
    IF t - gt < GlobalCooldown THEN [ok |-> FALSE, gt |-> gt, dt |-> dt]
    ELSE IF t - dt[i] < DeviceCooldown THEN [ok |-> FALSE, gt |-> gt, dt |-> dt]
    ELSE [ok |-> TRUE, gt |-> gt, dt |-> dt]

\* NanoleafRemote._check_throttle at time t for device i:
\* [ok, gt, dt] = the answer and the throttle state it leaves
_check_throttle(i, t, gt, dt) ==
    IF t - gt < GlobalCooldown THEN [ok |-> FALSE, gt |-> gt, dt |-> dt]
    ELSE IF t - dt[i] < DeviceCooldown THEN [ok |-> FALSE, gt |-> gt, dt |-> dt]
    ELSE [ok |-> TRUE, gt |-> t, dt |-> [dt EXCEPT ![i] = t]]

\* variant: the throttle check of the fan-out member is active
FanoutAdmits_throttled(i, t, gt, dt) == _check_throttle(i, t, gt, dt).ok

\* The throttle check at the head of _execute_device_action_safe is commented
\* out: every member of a fan-out is admitted.
FanoutAdmits(i, t, gt, dt) == TRUE

\* NanoleafRemote._execute_device_action_safe, for one member of a fan-out.
_execute_device_action_safe(i, info, action, net, cache, panel, t, gt, dt) ==
    LET body ==
          IF ~FanoutAdmits(i, t, gt, dt) THEN Done("false", <<>>, cache, panel)
          ELSE IF ~info.ip_address \/ ~info.auth_token THEN Done("false", <<>>, cache, panel)
          ELSE IF action = "turn_on" THEN PowerCmd(i, TRUE, net.w1, cache, panel)
          ELSE IF action = "turn_off" THEN PowerCmd(i, FALSE, net.w1, cache, panel)
          ELSE IF action = "toggle" THEN ToggleCmd(i, net, cache, panel)
          ELSE IF action = "identify"
               THEN Done(ResOf(net.w1), <<Call(i, "identify", 0, net.w1)>>, cache, panel)
          ELSE Done("false", <<>>, cache, panel)
    IN IF body.res = "raise" THEN [body EXCEPT !.res = "false"] ELSE body

FleetAction(command) ==
    CASE command = ALL_ON -> "turn_on"
      [] command = ALL_OFF -> "turn_off"
      [] command = ALL_TOGGLE -> "toggle"
      [] command = ALL_IDENTIFY -> "identify"
      [] OTHER -> "unknown"

\* What a dispatch did:
\*   kind      "fleet", "device" (a device prefix matched), "nomatch" or "rejected"
\*   target    the device an individually targeted command was routed to, else 0
\*   action    the action part parsed from the command (device commands)
\*   acquired  _check_throttle was consulted;  granted: its answer
\*   success   the boolean returned by _execute_nanoleaf_command
\*   results   fleet only: the gathered result per task, in task order
\*   calls     the transport calls issued, in order
Outcome(kind, target, action, acquired, granted, success, results, calls, gt, dt, cache, panel) ==
    [kind |-> kind, target |-> target, action |-> action, acquired |-> acquired,
     granted |-> granted, success |-> success, results |-> results, calls |-> calls,
     gt |-> gt, dt |-> dt, cache |-> cache, panel |-> panel]

\* variant: the first task that does not succeed ends the batch
gather_abort(tasks) ==
    LET bad == {k \in DOMAIN tasks : tasks[k].res # "true"}
    IN IF bad = {} THEN tasks
       ELSE SubSeq(tasks, 1, CHOOSE k \in bad : \A j \in bad : k <= j)

\* asyncio.gather(*tasks, return_exceptions=True): every task runs to its end,
\* whatever its siblings do, and the results come back in task order
gather(tasks) == tasks

success_count(results) == Cardinality({i \in DOMAIN results : results[i] = "true"})

\* variant: every device has to succeed
FleetVerdict_unanimous(results) == success_count(results) = Len(results)

\* the verdict of a fan-out: if success_count > 0 ... return True, else False
FleetVerdict(results) == success_count(results) > 0

\* NanoleafRemote._execute_global_command: one task per device, gathered with
\* return_exceptions=True; success iff success_count > 0.
_execute_global_command(command, devs, nets, t, gt, dt, cache, panel) ==
    LET action == FleetAction(command)
        tasks == IF action = "unknown" THEN <<>>
                 ELSE gather([i \in DOMAIN devs |->
                                _execute_device_action_safe(i, devs[i], action, nets[i],
                                                            cache[i], panel[i], t, gt, dt)])
        results == [i \in DOMAIN tasks |-> tasks[i].res]
    IN Outcome("fleet", 0, <<>>, FALSE, FALSE,
               Len(tasks) > 0 /\ FleetVerdict(results),
               results,
               Flatten([i \in DOMAIN tasks |-> tasks[i].calls]),
               gt, dt,
               [i \in DOMAIN devs |-> IF i \in DOMAIN tasks THEN tasks[i].cache ELSE cache[i]],
               [i \in DOMAIN devs |-> IF i \in DOMAIN tasks THEN tasks[i].on ELSE panel[i]])

\* variant: a throttled command is reported as a failure
Throttled_error(i, gt, dt, cache, panel) ==
    Outcome("device", i, <<>>, TRUE, FALSE, FALSE, <<>>, <<>>, gt, dt, cache, panel)

\* the throttled branch of _execute_device_command:
\* "if not self._check_throttle(device_id): ... return True"
Throttled(i, gt, dt, cache, panel) ==
    Outcome("device", i, <<>>, TRUE, FALSE, TRUE, <<>>, <<>>, gt, dt, cache, panel)

\* NanoleafRemote._execute_device_command: the first device, in dict order, whose
\* prefix + "_" starts the command takes it; every path after the match returns.
_execute_device_command(command, devs, nets, t, gt, dt, cache, panel) ==
    LET matching == {i \in DOMAIN devs :
                        StartsWith(command, DevicePrefix(devs[i]) \o US)}
    IN IF matching = {}
       THEN Outcome("nomatch", 0, <<>>, FALSE, FALSE, FALSE, <<>>, <<>>, gt, dt, cache, panel)
       ELSE
         LET i == CHOOSE k \in matching : \A j \in matching : k <= j
             th == _check_throttle(i, t, gt, dt)
             action_part == SubSeq(command, Len(DevicePrefix(devs[i])) + 2, Len(command))
         IN IF ~th.ok
            THEN Throttled(i, th.gt, th.dt, cache, panel)
            ELSE IF ~devs[i].ip_address \/ ~devs[i].auth_token
            THEN Outcome("device", i, action_part, TRUE, TRUE, FALSE, <<>>, <<>>,
                         th.gt, th.dt, cache, panel)
            ELSE LET a == _execute_device_action(i, devs[i], action_part, nets[i],
                                                 cache[i], panel[i])
                 IN Outcome("device", i, action_part, TRUE, TRUE, a.res = "true", <<>>,
                            a.calls, th.gt, th.dt,
                            [cache EXCEPT ![i] = a.cache],
                            [panel EXCEPT ![i] = a.on])

\* NanoleafRemote._execute_nanoleaf_command
_execute_nanoleaf_command(command, devs, nets, t, gt, dt, cache, panel) ==
    IF Len(devs) = 0 \/ command = NO_DEVICES
    THEN Outcome("rejected", 0, <<>>, FALSE, FALSE, FALSE, <<>>, <<>>, gt, dt, cache, panel)
    ELSE IF StartsWith(command, W_ALL_)
    THEN _execute_global_command(command, devs, nets, t, gt, dt, cache, panel)
    ELSE _execute_device_command(command, devs, nets, t, gt, dt, cache, panel)

\* NanoleafRemote._handle_send_cmd: the status for the boolean
StatusOf(success) == IF success THEN "OK" ELSE "SERVER_ERROR"

-----------------------------------------------------------------------------
(* The persisted device records the remote is constructed from.            *)

\* A record as NanoleafConfig.add_device writes it: colour, brightness and
\* colour temperature always supported, effects iff the effect list is not empty.
\* ip_address / auth_token: TRUE when the record holds a non-empty value.
\* prefix is _clean_command_name(name), which the code recomputes at every use.
DeviceRecord(name, device_type, effects_list, has_ip, has_token) ==
    [name |-> name, device_type |-> device_type, effects_list |-> effects_list,
     ip_address |-> has_ip, auth_token |-> has_token,
     supports_brightness |-> TRUE, supports_color |-> TRUE,
     supports_color_temp |-> TRUE, supports_effects |-> Len(effects_list) > 0]

E_Fire == <<"F","i","r","e">>
E_SnowFall == <<"S","n","o","w"," ","F","a","l","l">>

Desk == DeviceRecord(N_Desk, "panels", <<>>, TRUE, TRUE)
TV == DeviceRecord(N_TV, "elements", <<>>, TRUE, TRUE)
Bed == DeviceRecord(N_Bed, "canvas", <<E_Fire, E_SnowFall>>, TRUE, TRUE)
TVNoToken == DeviceRecord(N_TV, "elements", <<>>, TRUE, FALSE)

\* the fleets the throttle is explored on
Fleets == {<<Desk>>, <<Desk, TV>>, <<Desk, TVNoToken>>}
\* the fleets the fan-out is explored on
FanoutFleets == {<<Desk, TVNoToken>>, <<Desk, TV, Bed>>}

\* what the network does to the calls of one command on one device:
\* r the state read, w1 the first write, w2 the second write
Net(r, w1, w2) == [r |-> r, w1 |-> w1, w2 |-> w2]
NetCases == {Net("ok", "ok", "ok"), Net("fail", "ok", "ok"), Net("raise", "ok", "ok"),
             Net("ok", "fail", "ok"), Net("ok", "raise", "ok"),
             Net("ok", "ok", "fail"), Net("ok", "ok", "raise")}
\* the cases that differ for a power or identify action
PowerNetCases == {Net("ok", "ok", "ok"), Net("fail", "ok", "ok"),
                  Net("ok", "fail", "ok"), Net("ok", "raise", "ok")}
\* the cases that differ for an action that makes one write and no read
WriteNetCases == {Net("ok", "ok", "ok"), Net("ok", "fail", "ok")}

J_Junk == <<"X","_","O","N">>

\* the commands of the vocabulary with the given action suffixes
CommandsFor(devs, suffixes) ==
    {Token(DevicePrefix(devs[i]), s) : i \in DOMAIN devs, s \in suffixes}

DevIds == DOMAIN devices

\* no command coroutine is being followed
NoCoroutines == [cmds |-> <<>>, order |-> <<>>]

NoCommand ==
    [cmd |-> <<>>, kind |-> "none", target |-> 0, action |-> <<>>, acquired |-> FALSE,
     granted |-> FALSE, status |-> "", results |-> <<>>, calls |-> <<>>, devGap |-> -1]

\* ticks the model lets the clock run
MaxTicks == 6

\* time.time() is far beyond any cool-down when the remote is constructed
StartTime == DeviceCooldown

RouterInit(fleets) ==
    /\ devices \in fleets
    /\ simple_commands = _generate_simple_commands(devices)
    /\ now = StartTime
    /\ global_throttle = 0
    /\ device_throttle = [i \in DOMAIN devices |-> 0]
    /\ device_states = [i \in DOMAIN devices |-> "none"]
    /\ panelOn \in {[i \in DOMAIN devices |-> b] : b \in BOOLEAN}
    /\ last = NoCommand
    /\ lastTx = [i \in DOMAIN devices |-> -1]
    /\ lastIndTx = [i \in DOMAIN devices |-> -1]
    /\ lastBrightness = [i \in DOMAIN devices |-> 0]
    /\ co = NoCoroutines

RouterIdle ==
    /\ devices = <<>>
    /\ simple_commands = {}
    /\ now = StartTime
    /\ global_throttle = 0
    /\ device_throttle = <<>>
    /\ device_states = <<>>
    /\ panelOn = <<>>
    /\ last = NoCommand
    /\ lastTx = <<>>
    /\ lastIndTx = <<>>
    /\ lastBrightness = <<>>
    /\ co = NoCoroutines

NamesIdle ==
    /\ rawName = <<>>
    /\ cleanOnce = <<"?">>
    /\ cleanTwice = <<"?">>
    /\ dumps = <<>>
    /\ described = <<>>

\* no pairing batch has been started; before is the configuration and called
\* the number of callback invocations when the batch was started (history)
NoBatch == [state |-> "idle", tasks |-> <<>>, before |-> <<>>, called |-> 0]

\* a discovery that finds nothing
NoDiscovery == [raised |-> FALSE, devs |-> <<>>]

\* History of the setup session.  msg is the message handled last:
\*   type     "none", "request", "data", "confirm", "abort"
\*   flag     reconfigure of a request, confirm of a confirmation
\*   probe    the answers of the stored devices to the connectivity probe
\*   method   the discovery method of a data response, or the abort's error
\*   phase    the phase in which the message was received
\*   stored   the number of devices the configuration held at that time
\*   ran      the discovery its handler ran: "no", "discover", "scan"
\*   o        what that discovery came back with
\*   called   the handler invoked the completion callback
\*   raised   the handler's answer came from one of its except branches
\*   trail    the values the handler assigned to _setup_phase, in order
\* ended is the first terminal answer since the last setup request: "no",
\* "empty" (an error answering an empty selection), "error", "complete".
\* picked is the selection that led to the pairing phase last: the candidates
\* that were presented and the boxes that were ticked among them.
Msg(type, flag, probe, method, phase) ==
    [type |-> type, flag |-> flag, probe |-> probe, method |-> method, phase |-> phase,
     stored |-> Len(config),
     ran |-> "no", o |-> NoDiscovery, called |-> FALSE, raised |-> FALSE,
     trail |-> <<>>]
NoMsg == [Msg("none", FALSE, <<>>, "", "discovery") EXCEPT !.stored = 0]
NoPick == [shown |-> <<>>, ticks |-> {}]
NewSession == [msg |-> NoMsg, ended |-> "no", picked |-> NoPick]

\* NanoleafSetup.__init__, with an empty configuration file
SetupIdle ==
    /\ setup_phase = "discovery"
    /\ discovered = <<>>
    /\ selected = <<>>
    /\ config = <<>>
    /\ batch = NoBatch
    /\ elapsed = 0
    /\ setupOut = [kind |-> "none", detail |-> ""]
    /\ report = [ok |-> <<>>, failed |-> <<>>]
    /\ callbacks = 0
    /\ session = NewSession

\* the value of the last successful set_brightness among the calls to device
\* i, else what it was (NanoleafClient.set_brightness: on status 204 the
\* device holds the value)
BrightnessLeft(calls, i, was) ==
    LET set == {k \in DOMAIN calls :
                  calls[k].dev = i /\ calls[k].op = "set_brightness" /\ calls[k].res = "ok"}
    IN IF set = {} THEN was
       ELSE calls[CHOOSE k \in set : \A j \in set : j <= k].arg

\* NanoleafRemote.cmd_handler for SEND_CMD with params["command"] = command.
\* last is the record of what this step did; lastTx / lastIndTx are history:
\* when a command (an individually targeted command) last reached the device's
\* transport, -1 for never; last.devGap is the time since the previous
\* individually targeted command that reached the same device, -1 for none.
HandleSendCmd(command, nets) ==
    \E o \in {_execute_nanoleaf_command(command, devices, nets, now, global_throttle,
                                        device_throttle, device_states, panelOn)} :
    \E reached \in {{o.calls[k].dev : k \in DOMAIN o.calls}} :
       /\ global_throttle' = o.gt
       /\ device_throttle' = o.dt
       /\ device_states' = o.cache
       /\ panelOn' = o.panel
       /\ last' = [cmd |-> command, kind |-> o.kind, target |-> o.target,
                   action |-> o.action, acquired |-> o.acquired, granted |-> o.granted,
                   status |-> StatusOf(o.success), results |-> o.results,
                   calls |-> o.calls,
                   devGap |-> IF o.kind = "device" /\ o.target \in reached
                                 /\ lastIndTx[o.target] >= 0
                              THEN now - lastIndTx[o.target] ELSE -1]
       /\ lastTx' = [i \in DevIds |-> IF i \in reached THEN now ELSE lastTx[i]]
       /\ lastIndTx' = [i \in DevIds |->
                          IF o.kind = "device" /\ i \in reached THEN now ELSE lastIndTx[i]]
       /\ lastBrightness' = [i \in DevIds |-> BrightnessLeft(o.calls, i, lastBrightness[i])]
       /\ UNCHANGED co
       /\ UNCHANGED <<devices, simple_commands, now>>
       /\ UNCHANGED nameVars
       /\ UNCHANGED setupVars

\* an individually targeted (or unroutable) command arrives
SendDeviceCmd(commands, cases) ==
    \E command \in commands, net \in cases :
        /\ ~StartsWith(command, W_ALL_)
        /\ HandleSendCmd(command, [i \in DevIds |-> net])

AllOk == Net("ok", "ok", "ok")

\* a command with the fleet prefix arrives; the network outcomes explored are
\* those with at most one device in trouble, and those where any number of
\* devices refuse the write
SendFleetCmd(commands, cases) ==
    \E command \in commands,
       nets \in {f \in [DevIds -> cases] :
                  \/ Cardinality({i \in DevIds : f[i] # AllOk}) <= 1
                  \/ \A i \in DevIds : f[i] = AllOk \/ f[i] = Net("ok", "fail", "ok")} :
        /\ StartsWith(command, W_ALL_)
        /\ HandleSendCmd(command, nets)

\* time passes by dt ticks; no command is being handled
Advance(dt) ==
    /\ now + dt <= StartTime + MaxTicks
    /\ now' = now + dt
    /\ last' = NoCommand
    /\ UNCHANGED <<devices, simple_commands, global_throttle, device_throttle,
                   device_states, panelOn, lastTx, lastIndTx, lastBrightness, co>>
    /\ UNCHANGED nameVars
    /\ UNCHANGED setupVars

-----------------------------------------------------------------------------
(* Spec: the throttle guard on a clock of 0.05 s ticks, under individually *)
(* targeted and fleet commands.                                            *)

Init == RouterInit(Fleets) /\ NamesIdle /\ SetupIdle

Tick == Advance(1)
SendTimed == SendDeviceCmd(CommandsFor(devices, {W_ON, W_IDENTIFY}) \cup {J_Junk},
                           WriteNetCases)
SendFleetTimed == SendFleetCmd({ALL_ON, ALL_IDENTIFY}, WriteNetCases)

Next == Tick \/ SendTimed \/ SendFleetTimed

Spec == Init /\ [][Next]_vars

-----------------------------------------------------------------------------
(* SpecFleet: fleet fan-out next to individually targeted commands, with    *)
(* the clock standing still (every fan-out falls inside the cool-downs of  *)
(* the individual command before it).                                      *)

InitFleet == RouterInit(FanoutFleets) /\ NamesIdle /\ SetupIdle

SendPower == SendDeviceCmd(CommandsFor(devices, {W_ON}), WriteNetCases)
SendFleet == SendFleetCmd(FleetTokens, PowerNetCases)

NextFleet == SendPower \/ SendFleet

SpecFleet == InitFleet /\ [][NextFleet]_vars

-----------------------------------------------------------------------------
(* Properties of the throttle guard (Spec).                                *)

\* the devices whose transport the calls of a dispatch reached
Reached(calls) == {calls[k].dev : k \in DOMAIN calls}

\* C1, as stated: a command of either kind reaches a device's transport no
\* sooner than the device cool-down after the previous command that reached
\* that device, and no sooner than the global cool-down after the previous
\* command that reached any device.
C1_AllCommandsSpaced ==
    [][\A d \in Reached(last'.calls) :
          /\ lastTx[d] >= 0 => now - lastTx[d] >= DeviceCooldown
          /\ \A e \in DevIds : lastTx[e] >= 0 => now - lastTx[e] >= GlobalCooldown]_vars

\* C1, for individually targeted commands: such a command reaches a device's
\* transport no sooner than the device cool-down after the previous
\* individually targeted command that reached that device, and no sooner than
\* the global cool-down after the previous individually targeted command that
\* reached any device.
C1_TargetedCommandsSpaced ==
    [][last'.kind = "device" =>
         \A d \in Reached(last'.calls) :
            /\ lastIndTx[d] >= 0 => now - lastIndTx[d] >= DeviceCooldown
            /\ \A e \in DevIds :
                  lastIndTx[e] >= 0 => now - lastIndTx[e] >= GlobalCooldown]_vars

\* a targeted command reaches a device exactly one device cool-down after the
\* previous one did, while another device was reached less than a device
\* cool-down ago
C1_Witness ==
    /\ last.kind = "device"
    /\ last.target \in Reached(last.calls)
    /\ last.devGap = DeviceCooldown
    /\ \E e \in DevIds \ {last.target} :
          /\ lastIndTx[e] >= 0
          /\ now - lastIndTx[e] >= GlobalCooldown
          /\ now - lastIndTx[e] < DeviceCooldown

\* C2: an acquire for device d at time now is refused exactly when
\* now - lastGlobal < 0.1 s or now - lastDevice[d] < 0.3 s; a refusal leaves
\* both timestamps alone, a grant sets both to now (and no other device's).
\* An acquire 0.05 s after a grant is refused, for the same device and for
\* any other device.
C2_TryAcquire ==
    [][last'.acquired =>
         LET d == last'.target
             refused == \/ now - global_throttle < GlobalCooldown
                        \/ now - device_throttle[d] < DeviceCooldown
         IN /\ last'.granted = ~refused
            /\ refused => /\ global_throttle' = global_throttle
                          /\ device_throttle' = device_throttle
            /\ ~refused => /\ global_throttle' = now
                           /\ device_throttle' = [device_throttle EXCEPT ![d] = now]
            /\ now - global_throttle = 1 => ~last'.granted
            /\ now - device_throttle[d] = 1 => ~last'.granted]_vars

\* an acquire refused 0.05 s after a grant to a different device
C2_Witness ==
    /\ last.acquired
    /\ ~last.granted
    /\ now - global_throttle = 1
    /\ device_throttle[last.target] < global_throttle
    /\ \E e \in DevIds \ {last.target} : device_throttle[e] = global_throttle

\* C3: a throttled individually targeted command is answered with status OK,
\* issues no transport call, and leaves the cached device states (and the
\* panels) as they were.
C3_ThrottledIsBenign ==
    [][(last'.kind = "device" /\ last'.acquired /\ ~last'.granted) =>
         /\ last'.status = "OK"
         /\ last'.calls = <<>>
         /\ device_states' = device_states
         /\ panelOn' = panelOn
         /\ lastTx' = lastTx]_vars

\* a throttled command for a device whose cached state is known
C3_Witness ==
    /\ last.kind = "device"
    /\ last.acquired
    /\ ~last.granted
    /\ last.status = "OK"
    /\ last.calls = <<>>
    /\ device_states[last.target] = "on"

-----------------------------------------------------------------------------
(* Properties of the fleet fan-out (SpecFleet).                            *)

HasCredentials(info) == info.ip_address /\ info.auth_token

\* the transport operation a fleet action starts with
FirstOp(command) ==
    CASE command = ALL_ON -> "set_power"
      [] command = ALL_OFF -> "set_power"
      [] command = ALL_TOGGLE -> "get_device_info"
      [] command = ALL_IDENTIFY -> "identify"

\* C4: each of the four fleet commands issues its action to every device
\* that has an address and a credential, however recently an individually
\* targeted command was dispatched; the throttle state is not touched.
C4_FanoutReachesAll ==
    (last.kind = "fleet" /\ last.cmd \in FleetTokens) =>
        /\ ~last.acquired
        /\ \A i \in DevIds :
              HasCredentials(devices[i]) =>
                 \E k \in DOMAIN last.calls :
                    /\ last.calls[k].dev = i
                    /\ last.calls[k].op = FirstOp(last.cmd)

\* a fan-out reaching a device in the same instant an individually targeted
\* command was granted for it
C4_Witness ==
    /\ last.kind = "fleet"
    /\ last.cmd \in FleetTokens
    /\ \E i \in DevIds :
          /\ lastIndTx[i] = now
          /\ device_throttle[i] = now
          /\ global_throttle = now
          /\ i \in Reached(last.calls)

FailedCalls(calls) == {k \in DOMAIN calls : calls[k].res # "ok"}
FailedActions(results) == {i \in DOMAIN results : results[i] # "true"}

\* C5, as stated: a fleet command succeeds iff at least one device's action
\* succeeded; with 3 devices and exactly one failing transport call the
\* result is success with exactly one per-device failure.
C5_OneFailedCall ==
    (last.kind = "fleet" /\ last.cmd \in FleetTokens) =>
        /\ last.status = "OK" <=> \E i \in DOMAIN last.results : last.results[i] = "true"
        /\ (Len(devices) = 3 /\ Cardinality(FailedCalls(last.calls)) = 1) =>
              /\ last.status = "OK"
              /\ Cardinality(FailedActions(last.results)) = 1

\* the calls that carry out a fleet action (the state read of a toggle only
\* prepares it)
FailedWrites(calls) == {k \in FailedCalls(calls) : calls[k].op # "get_device_info"}

\* C5, with the failing call being the one that carries out the action: a
\* fleet command succeeds iff at least one device's action succeeded; with 3
\* credentialed devices and exactly one failing action call the result is
\* success with exactly one per-device failure; a failing state read in
\* ALL_TOGGLE is no per-device failure.
C5_OneFailedAction ==
    (last.kind = "fleet" /\ last.cmd \in FleetTokens) =>
        /\ last.status = "OK" <=> \E i \in DOMAIN last.results : last.results[i] = "true"
        /\ (/\ Len(devices) = 3
            /\ \A i \in DevIds : HasCredentials(devices[i])
            /\ Cardinality(FailedWrites(last.calls)) = 1) =>
              /\ last.status = "OK"
              /\ Cardinality(FailedActions(last.results)) = 1
        /\ (/\ \A i \in DevIds : HasCredentials(devices[i])
            /\ FailedWrites(last.calls) = {}) => FailedActions(last.results) = {}

\* ALL_ON on 3 devices, one set_power refused: OK with one failure recorded
C5_Witness ==
    /\ last.kind = "fleet"
    /\ last.cmd = ALL_ON
    /\ Len(devices) = 3
    /\ Cardinality(FailedCalls(last.calls)) = 1
    /\ last.status = "OK"
    /\ Cardinality(FailedActions(last.results)) = 1

-----------------------------------------------------------------------------
(* SpecSanitize: the sanitizer applied to every display name of up to      *)
(* MaxLen characters over NameAlphabet, and then to its own result.        *)

MaxLen == 3

NameAlphabet == {"a", "L", "2", "_", "-", U_kra, U_eszett, U_iota}

RECURSIVE NamesUpTo(_)
NamesUpTo(n) ==
    IF n = 0 THEN {<<>>}
    ELSE NamesUpTo(n - 1) \cup
         {Append(w, c) : w \in {v \in NamesUpTo(n - 1) : Len(v) = n - 1}, c \in NameAlphabet}

Unset == <<"?">>

InitSanitize ==
    /\ rawName \in NamesUpTo(MaxLen)
    /\ cleanOnce = Unset
    /\ cleanTwice = Unset
    /\ dumps = <<>>
    /\ described = <<>>
    /\ RouterIdle
    /\ SetupIdle

\* clean_name = self._clean_command_name(device_name), and the same again on
\* the result
Sanitize ==
    /\ cleanOnce = Unset
    /\ cleanOnce' = _clean_command_name(rawName)
    /\ cleanTwice' = _clean_command_name(_clean_command_name(rawName))
    /\ UNCHANGED <<rawName, dumps, described>>
    /\ UNCHANGED routerVars
    /\ UNCHANGED setupVars

NextSanitize == Sanitize

SpecSanitize == InitSanitize /\ [][NextSanitize]_vars

IsUpperOrDigit(c) == c \in Range(UpperLetters) \cup Range(Digits) \cup {U_IOTA}

\* single underscores only, none leading, none trailing
WellSeparated(s) ==
    /\ ~Contains(s, <<"_", "_">>)
    /\ Len(s) > 0 => s[1] # "_" /\ s[Len(s)] # "_"

\* C8, as stated: sanitizing a sanitized name changes nothing, and a
\* sanitized name consists of uppercase letters, digits and single
\* underscores, with no underscore at either end.
C8_UppercaseToken ==
    cleanOnce # Unset =>
        /\ cleanTwice = cleanOnce
        /\ \A i \in DOMAIN cleanOnce : cleanOnce[i] = "_" \/ IsUpperOrDigit(cleanOnce[i])
        /\ WellSeparated(cleanOnce)

\* C8, with the letters that have no uppercase form: sanitizing a sanitized
\* name changes nothing, and a sanitized name consists of alphanumeric
\* characters that upper-casing leaves as they are, and single underscores,
\* with no underscore at either end.
C8_Idempotent ==
    cleanOnce # Unset =>
        /\ cleanTwice = cleanOnce
        /\ \A i \in DOMAIN cleanOnce :
              \/ cleanOnce[i] = "_"
              \/ IsAlnum(cleanOnce[i]) /\ UpperChar(cleanOnce[i]) = <<cleanOnce[i]>>
        /\ WellSeparated(cleanOnce)

\* a name whose sanitized form differs from it, has an inner underscore made
\* of several separators, and is a fixed point
C8_Witness ==
    /\ cleanOnce # Unset
    /\ cleanOnce # rawName
    /\ Len(rawName) = MaxLen
    /\ Len(cleanOnce) = MaxLen
    /\ cleanOnce[2] = "_"
    /\ cleanTwice = cleanOnce

-----------------------------------------------------------------------------
(* SpecRoute: every token of the vocabulary dispatched while no cool-down  *)
(* is pending, on fleets whose names overlap after sanitizing.             *)

Lamp == DeviceRecord(N_Lamp, "panels", <<>>, TRUE, TRUE)
Lamp2 == DeviceRecord(N_Lamp2, "panels", <<>>, TRUE, TRUE)
All == DeviceRecord(N_All, "panels", <<>>, TRUE, TRUE)
AllLamps == DeviceRecord(N_AllLamps, "panels", <<>>, TRUE, TRUE)
DeskBang == DeviceRecord(N_desk, "panels", <<>>, TRUE, TRUE)

RouteFleets == {<<Bed, TV>>, <<All>>, <<Lamp, Lamp2>>, <<Lamp2, Lamp>>,
                <<Desk, DeskBang>>, <<AllLamps, Bed>>}

\* device cool-downs the model lets pass
MaxCooldowns == 1

InitRoute == RouterInit(RouteFleets) /\ NamesIdle /\ SetupIdle

\* no cool-down is pending for any device
Rested ==
    /\ now - global_throttle >= GlobalCooldown
    /\ \A i \in DevIds : now - device_throttle[i] >= DeviceCooldown

\* a token of the vocabulary arrives while no cool-down is pending
SendToken ==
    \E command \in simple_commands, net \in WriteNetCases :
        /\ Rested
        /\ HandleSendCmd(command, [i \in DevIds |-> net])

\* a device cool-down passes
Rest ==
    /\ last.kind # "none"
    /\ now + DeviceCooldown <= StartTime + MaxCooldowns * DeviceCooldown
    /\ now' = now + DeviceCooldown
    /\ last' = NoCommand
    /\ UNCHANGED <<devices, simple_commands, global_throttle, device_throttle,
                   device_states, panelOn, lastTx, lastIndTx, lastBrightness, co>>
    /\ UNCHANGED nameVars
    /\ UNCHANGED setupVars

NextRoute == SendToken \/ Rest

SpecRoute == InitRoute /\ [][NextRoute]_vars

\* C7: the vocabulary holds all four fleet tokens when there are two or more
\* devices, and none of them when there is one device, whatever its name.
C7_FleetTokensIffSeveral ==
    /\ Len(devices) >= 2 => FleetTokens \subseteq simple_commands
    /\ Len(devices) = 1 => FleetTokens \cap simple_commands = {}

\* C9: devices with distinct display names have distinct prefixes, and a
\* token the vocabulary emits for device d, dispatched and not throttled,
\* is routed to d with the token's action and reaches no other device.
C9_RoutingRoundTrip ==
    /\ \A i, j \in DevIds :
          devices[i].name # devices[j].name =>
             DevicePrefix(devices[i]) # DevicePrefix(devices[j])
    /\ \A d \in DevIds : \A sfx \in DeviceSuffixes(devices[d]) :
          (last.cmd = Token(DevicePrefix(devices[d]), sfx)
             /\ ~(last.acquired /\ ~last.granted)) =>
                /\ last.kind = "device"
                /\ last.target = d
                /\ last.action = sfx
                /\ Reached(last.calls) \subseteq {d}

-----------------------------------------------------------------------------
(* SpecTemp: temperature and colour presets on a device of the elements    *)
(* family and on a device of another family, under every outcome of the    *)
(* transport calls.                                                        *)

TempSuffixes == {W_TEMP_ \o w : w \in {W_WARM, W_COOL, W_2700K, W_4000K, W_6500K}}
PresetSuffixes == TempSuffixes \cup {W_COLOR_ \o W_WARM, W_COLOR_ \o W_COOL}

InitTemp == RouterInit({<<TV, Bed>>}) /\ NamesIdle /\ SetupIdle

\* a temperature or colour preset arrives while no cool-down is pending
SendPreset ==
    \E command \in CommandsFor(devices, PresetSuffixes), net \in NetCases :
        /\ Rested
        /\ HandleSendCmd(command, [i \in DevIds |-> net])

NextTemp == SendPreset \/ Rest

SpecTemp == InitTemp /\ [][NextTemp]_vars

\* the colour preset a temperature action stands for on the elements family
ColourFor(sfx) ==
    IF sfx \in {W_TEMP_ \o W_WARM, W_TEMP_ \o W_2700K} THEN W_COLOR_ \o W_WARM
    ELSE W_COLOR_ \o W_COOL

\* C20: on a device of the elements family a temperature action does what
\* the corresponding colour action does, whatever the transport answers:
\* the same calls, the same result, the same cache (TEMP_WARM as COLOR_WARM,
\* TEMP_COOL as COLOR_COOL), and no command handled for such a device has
\* sent it a colour temperature.
C20_ElementsTempIsColour ==
    \A i \in DevIds :
        devices[i].device_type = "elements" =>
            /\ \A sfx \in TempSuffixes, net \in NetCases :
                  _execute_device_action(i, devices[i], sfx, net, device_states, panelOn)
                    = _execute_device_action(i, devices[i], ColourFor(sfx), net,
                                             device_states, panelOn)
            /\ (last.kind = "device" /\ last.target = i) =>
                  /\ \A k \in DOMAIN last.calls : last.calls[k].op # "set_color_temperature"
                  /\ (last.granted /\ last.action \in TempSuffixes) =>
                        /\ Len(last.calls) >= 1
                        /\ last.calls[1].op = "set_hue"

\* TEMP_WARM handled for the elements device: hue 30 and saturation 50 are
\* written, as for COLOR_WARM, and the command is reported OK
C20_Witness ==
    /\ last.kind = "device"
    /\ devices[last.target].device_type = "elements"
    /\ last.action = W_TEMP_ \o W_WARM
    /\ last.granted
    /\ Len(last.calls) = 2
    /\ last.calls[1].op = "set_hue" /\ last.calls[1].arg = 30
    /\ last.calls[2].op = "set_saturation" /\ last.calls[2].arg = 50
    /\ last.status = "OK"

-----------------------------------------------------------------------------
(* SpecPower: power commands (ON, OFF, TOGGLE, the fleet toggle) under     *)
(* every outcome of the state read and of the write, on panels that can    *)
(* also be switched from outside the integration.                          *)

PowerSuffixes == {W_ON, W_OFF, W_TOGGLE}

InitPower == RouterInit({<<Desk, TV>>}) /\ NamesIdle /\ SetupIdle

\* ON, OFF or TOGGLE for one device arrives while no cool-down is pending
SendPowerCmd ==
    \E command \in CommandsFor(devices, PowerSuffixes), net \in NetCases :
        /\ Rested
        /\ HandleSendCmd(command, [i \in DevIds |-> net])

\* the fleet toggle arrives
SendFleetToggle == SendFleetCmd({ALL_TOGGLE}, PowerNetCases)

\* a panel is switched by its own controller or by another application
PanelSwitched ==
    \E i \in DevIds :
        /\ last.kind # "none"
        /\ panelOn' = [panelOn EXCEPT ![i] = ~panelOn[i]]
        /\ last' = NoCommand
        /\ UNCHANGED <<devices, simple_commands, now, global_throttle, device_throttle,
                       device_states, lastTx, lastIndTx, lastBrightness, co>>
        /\ UNCHANGED nameVars
        /\ UNCHANGED setupVars

NextPower == SendPowerCmd \/ SendFleetToggle \/ PanelSwitched \/ Rest

SpecPower == InitPower /\ [][NextPower]_vars

\* the calls of a dispatch that went to device i, in order
CallsTo(calls, i) == SelectSeq(calls, LAMBDA c : c.dev = i)

\* device i was toggled by the command just handled
Toggled(l, i) ==
    \/ l.kind = "device" /\ l.target = i /\ l.granted /\ l.action = W_TOGGLE
    \/ l.kind = "fleet" /\ l.cmd = ALL_TOGGLE

\* the power state the integration observes in the calls made to a device:
\* the value of a successful write, else the value a successful read reported
Observes(calls, panel, was) ==
    LET writes == {k \in DOMAIN calls : calls[k].op = "set_power" /\ calls[k].res = "ok"}
        reads == {k \in DOMAIN calls : calls[k].op = "get_device_info" /\ calls[k].res = "ok"}
    IN IF writes # {}
       THEN (IF \E k \in writes : calls[k].arg = 1 THEN "on" ELSE "off")
       ELSE IF reads # {} THEN (IF panel THEN "on" ELSE "off")
       ELSE was

\* C21: a TOGGLE reads the device's state and then writes the opposite of the
\* state the read reported; when the read fails it writes the opposite of
\* the last locally observed state, which is the state left by the most
\* recent successful power write or successful read for that device.
C21_ToggleFromState ==
    [][\A i \in DevIds :
          LET c == CallsTo(last'.calls, i)
          IN /\ last'.kind \in {"device", "fleet"} =>
                   device_states'[i] = Observes(c, panelOn[i], device_states[i])
             /\ (Toggled(last', i) /\ c # <<>>) =>
                   /\ Len(c) = 2
                   /\ c[1].op = "get_device_info"
                   /\ c[2].op = "set_power"
                   /\ c[2].arg = IF c[1].res = "ok"
                                 THEN (IF panelOn[i] THEN 0 ELSE 1)
                                 ELSE (IF device_states[i] = "on" THEN 0 ELSE 1)]_vars

\* a TOGGLE whose state read failed, for a device an earlier command had
\* switched on: OFF is sent and succeeds
C21_Witness ==
    /\ last.kind = "device"
    /\ last.action = W_TOGGLE
    /\ last.devGap >= 0
    /\ Len(last.calls) = 2
    /\ last.calls[1].op = "get_device_info" /\ last.calls[1].res = "fail"
    /\ last.calls[2].op = "set_power" /\ last.calls[2].arg = 0
    /\ last.calls[2].res = "ok"
    /\ device_states[last.target] = "off"
    /\ last.status = "OK"

-----------------------------------------------------------------------------
(* SpecBright: brightness commands, each after the cool-down of the one    *)
(* before it, under every outcome of the write.                            *)

BrightnessSuffixes == {W_BRIGHTNESS_ \o w : w \in {W_UP, W_DOWN, W_25, W_50, W_75, W_100}}

InitBright == RouterInit({<<Desk>>, <<Desk, TV>>}) /\ NamesIdle /\ SetupIdle

\* a brightness command arrives while no cool-down is pending
SendBrightness ==
    \E command \in CommandsFor(devices, BrightnessSuffixes), net \in NetCases :
        /\ Rested
        /\ HandleSendCmd(command, [i \in DevIds |-> net])

NextBright == SendBrightness \/ Rest

SpecBright == InitBright /\ [][NextBright]_vars

\* C22: a BRIGHTNESS_UP or BRIGHTNESS_DOWN handled for a device whose last
\* successful brightness command left the brightness b writes min(100, b+20)
\* for UP and max(1, b-20) for DOWN.
C22_StepFromCurrent ==
    [][\A i \in DevIds :
          (/\ last'.kind = "device" /\ last'.target = i /\ last'.granted
           /\ last'.action \in {W_BRIGHTNESS_ \o W_UP, W_BRIGHTNESS_ \o W_DOWN}
           /\ lastBrightness[i] > 0) =>
              /\ Len(last'.calls) = 1
              /\ last'.calls[1].op = "set_brightness"
              /\ last'.calls[1].arg =
                    IF last'.action = W_BRIGHTNESS_ \o W_UP
                    THEN Clamp(1, lastBrightness[i] + BrightnessStep, 100)
                    ELSE Clamp(1, lastBrightness[i] - BrightnessStep, 100)]_vars

-----------------------------------------------------------------------------
(* SpecEffect: the effect tokens of the vocabulary, and an effect token    *)
(* the vocabulary does not hold, dispatched while no cool-down is pending. *)

E_EffectFire == <<"E","f","f","e","c","t"," ","F","i","r","e">>
E_None == <<"N","O">>

\* a device with an effect list of its own: "Effect Fire", "Fire", "Snow Fall"
Glow == DeviceRecord(N_Lamp, "shapes", <<E_EffectFire, E_Fire, E_SnowFall>>, TRUE, TRUE)

\* a device with more effects than the vocabulary takes: "a", "b", "c", ...
NumEffects == 12
EffectLetters == <<"a","b","c","d","e","f","g","h","i","j","k","l","m","n">>
Wall == DeviceRecord(N_Desk, "canvas", [k \in 1..NumEffects |-> <<EffectLetters[k]>>],
                     TRUE, TRUE)

InitEffect == RouterInit({<<Bed>>, <<Glow, Bed>>, <<Wall, TV>>}) /\ NamesIdle /\ SetupIdle

\* the effect suffixes the vocabulary holds for a device
EffectSuffixes(info) == {s \in DeviceSuffixes(info) : StartsWith(s, W_EFFECT_)}

\* the part of an effect suffix after "EFFECT_"
EffectPart(sfx) == SubSeq(sfx, Len(W_EFFECT_) + 1, Len(sfx))

\* the effects of a device whose sanitized name is the given one
Named(info, clean) ==
    {k \in DOMAIN info.effects_list : _clean_command_name(info.effects_list[k]) = clean}

\* an effect token arrives while no cool-down is pending
SendEffect ==
    \E i \in DevIds :
    \E sfx \in EffectSuffixes(devices[i]) \cup {W_EFFECT_ \o E_None}, net \in NetCases :
        /\ Rested
        /\ HandleSendCmd(Token(DevicePrefix(devices[i]), sfx), [j \in DevIds |-> net])

NextEffect == SendEffect \/ Rest

SpecEffect == InitEffect /\ [][NextEffect]_vars

\* C23: an effect token of the vocabulary, handled for its device and not
\* throttled, makes one set_effect call for an effect of that device whose
\* sanitized name is the token's effect suffix; an effect token whose suffix
\* is the sanitized name of no effect of the device fails without a call.
C23_EffectTokenSelects ==
    \A d \in DevIds :
        (last.kind = "device" /\ last.target = d /\ last.granted
           /\ StartsWith(last.action, W_EFFECT_)) =>
            /\ last.action \in EffectSuffixes(devices[d]) =>
                  /\ Len(last.calls) = 1
                  /\ last.calls[1].op = "set_effect"
                  /\ last.calls[1].arg \in Named(devices[d], EffectPart(last.action))
            /\ Named(devices[d], EffectPart(last.action)) = {} =>
                  /\ last.calls = <<>>
                  /\ last.status = "SERVER_ERROR"

\* the effect tokens the vocabulary holds for device d
EffectTokens(d) ==
    {c \in simple_commands : StartsWith(c, DevicePrefix(devices[d]) \o US \o W_EFFECT_)}

\* C24: for every device the vocabulary holds at most 10 effect tokens, they
\* are the tokens of the first 10 entries of the device's effect list, and
\* there is none for a device whose effect list is empty.
C24_EffectTokensCapped ==
    \A d \in DevIds :
        LET list == devices[d].effects_list
            n == IF Len(list) < EffectCap THEN Len(list) ELSE EffectCap
        IN /\ Cardinality(EffectTokens(d)) <= EffectCap
           /\ EffectTokens(d) =
                 {Token(DevicePrefix(devices[d]), W_EFFECT_ \o _clean_command_name(list[k])) :
                    k \in 1..n}
           /\ (~devices[d].supports_effects \/ list = <<>>) => EffectTokens(d) = {}

\* a device with more than 10 effects has exactly 10 effect tokens, the token
\* of its 11th effect is not in the vocabulary, its 10th effect is selected
\* through its token, and the device next to it, without effects, has none
C24_Witness ==
    \E d, e \in DevIds :
        /\ Len(devices[d].effects_list) > EffectCap
        /\ Cardinality(EffectTokens(d)) = EffectCap
        /\ Token(DevicePrefix(devices[d]),
                 W_EFFECT_ \o _clean_command_name(devices[d].effects_list[EffectCap + 1]))
              \notin simple_commands
        /\ devices[e].effects_list = <<>>
        /\ EffectTokens(e) = {}
        /\ last.target = d
        /\ last.calls = <<Call(d, "set_effect", EffectCap, "ok")>>

-----------------------------------------------------------------------------
(* SpecDump: NanoleafConfig.get_all_config on pairs of configurations that *)
(* hold the same devices and differ at most in their credentials.          *)

HIDDEN == "***HIDDEN***"
\* the credentials a device hands out at pairing, and the value of a record
\* stored without one
TokenValues == {"tokenA", "tokenB"}
NoToken == ""

\* a stored record, with the fields that hold text
Stored_1(t) ==
    [device_id |-> "10_1_16021", ip_address |-> "10.1", auth_token |-> t,
     name |-> "Desk", model |-> "NL42"]
Stored_2(t) ==
    [device_id |-> "10_2_16021", ip_address |-> "10.2", auth_token |-> t,
     name |-> "TV", model |-> "NL64"]

\* the stored configurations: no device, one device, two devices
DumpConfigs(tokens) ==
    {<<>>} \cup {<<Stored_1(t)>> : t \in tokens}
           \cup {<<Stored_1(t), Stored_2(u)>> : t \in tokens, u \in tokens}

\* variant: the records are returned as they are stored
get_all_config_plain(cfg) == [safe_config |-> cfg, after |-> cfg]

\* NanoleafConfig.get_all_config: the returned copy and the stored
\* configuration afterwards (the records are copied before they are changed)
get_all_config(cfg) ==
    [safe_config |-> [i \in DOMAIN cfg |-> [cfg[i] EXCEPT !.auth_token = HIDDEN]],
     after |-> cfg]

NotDumped == [safe_config |-> <<>>, after |-> <<>>, done |-> FALSE]

InitDump ==
    /\ RouterIdle /\ SetupIdle
    /\ rawName = <<>> /\ cleanOnce = Unset /\ cleanTwice = Unset
    /\ described = <<>>
    /\ \E a \in DumpConfigs(TokenValues \cup {NoToken}),
          b \in DumpConfigs(TokenValues \cup {NoToken}) :
          /\ Len(a) = Len(b)
          /\ dumps = <<[stored |-> a, out |-> NotDumped], [stored |-> b, out |-> NotDumped]>>

\* the dump is taken of both configurations
GetAllConfig ==
    /\ \A k \in DOMAIN dumps : ~dumps[k].out.done
    /\ dumps' = [k \in DOMAIN dumps |->
                   [dumps[k] EXCEPT !.out =
                       [safe_config |-> get_all_config(dumps[k].stored).safe_config,
                        after |-> get_all_config(dumps[k].stored).after,
                        done |-> TRUE]]]
    /\ UNCHANGED <<rawName, cleanOnce, cleanTwice, described>>
    /\ UNCHANGED routerVars
    /\ UNCHANGED setupVars

NextDump == GetAllConfig

SpecDump == InitDump /\ [][NextDump]_vars

\* the credentials a configuration holds
Secrets(cfg) == {cfg[i].auth_token : i \in DOMAIN cfg} \ {NoToken}

\* the values a dump shows
Shown(dump) == {dump[i][f] : i \in DOMAIN dump, f \in {"device_id", "ip_address",
                                                        "auth_token", "name", "model"}}

\* C25: the dump of a configuration shows none of the credentials stored in
\* it, the dumps of two configurations that differ only in their
\* credentials are equal, and the configuration stored after the dump is
\* the one stored before.
C25_DumpHidesCredentials ==
    (\A k \in DOMAIN dumps : dumps[k].out.done) =>
        /\ \A k \in DOMAIN dumps :
              /\ Shown(dumps[k].out.safe_config) \cap Secrets(dumps[k].stored) = {}
              /\ dumps[k].out.after = dumps[k].stored
        /\ \A j, k \in DOMAIN dumps : dumps[j].out.safe_config = dumps[k].out.safe_config

\* two devices with different credentials in one configuration, other
\* credentials (one of them missing) in the other, and both dumps taken
C25_Witness ==
    /\ Len(dumps) = 2
    /\ dumps[1].out.done /\ dumps[2].out.done
    /\ dumps[1].stored = <<Stored_1("tokenA"), Stored_2("tokenB")>>
    /\ dumps[2].stored = <<Stored_1("tokenB"), Stored_2(NoToken)>>
    /\ dumps[1].out.safe_config = dumps[2].out.safe_config
    /\ dumps[1].out.safe_config[1].auth_token = HIDDEN

-----------------------------------------------------------------------------
(* SpecHandler: NanoleafRemote.cmd_handler under every command id, with    *)
(* and without a command, and commands that follow failed commands.        *)

\* the command ids of the remote entity, and one it does not know
CmdIds == {"on", "off", "send_cmd", "other"}

\* NanoleafRemote.cmd_handler for everything but SEND_CMD with a command:
\* _handle_on / _handle_off update the entity's attributes (api is what that
\* call does: "ok" or "raise"), SEND_CMD without a command is a bad request,
\* any other id is not implemented; an exception is answered SERVER_ERROR
cmd_handler(cmd_id, api) ==
    IF cmd_id \in {"on", "off"}
    THEN (IF api = "raise" THEN "SERVER_ERROR" ELSE "OK")
    ELSE IF cmd_id = "send_cmd" THEN "BAD_REQUEST"
    ELSE "NOT_IMPLEMENTED"

\* a command other than SEND_CMD with a command is handled
HandleOtherCmd ==
    \E cmd_id \in CmdIds, api \in {"ok", "raise"} :
        /\ last' = [NoCommand EXCEPT !.kind = cmd_id, !.status = cmd_handler(cmd_id, api)]
        /\ last' # last
        /\ UNCHANGED <<devices, simple_commands, now, global_throttle, device_throttle,
                       device_states, panelOn, lastTx, lastIndTx, lastBrightness, co>>
        /\ UNCHANGED nameVars
        /\ UNCHANGED setupVars

InitHandler == RouterInit({<<Desk>>, <<Desk, TV>>}) /\ NamesIdle /\ SetupIdle

\* SEND_CMD with a command: a power command, a colour preset, a fleet command,
\* a command no device takes
SendAny ==
    \E command \in CommandsFor(devices, {W_ON, W_COLOR_ \o W_RED})
                     \cup {J_Junk, NO_DEVICES, ALL_ON},
       net \in NetCases :
        HandleSendCmd(command, [i \in DevIds |-> net])

\* a device cool-down passes; the record of the last command is kept
Wait ==
    /\ last.kind # "none"
    /\ now + DeviceCooldown <= StartTime + MaxCooldowns * DeviceCooldown
    /\ now' = now + DeviceCooldown
    /\ UNCHANGED <<devices, simple_commands, global_throttle, device_throttle,
                   device_states, panelOn, last, lastTx, lastIndTx, lastBrightness, co>>
    /\ UNCHANGED nameVars
    /\ UNCHANGED setupVars

NextHandler == SendAny \/ HandleOtherCmd \/ Wait

SpecHandler == InitHandler /\ [][NextHandler]_vars

\* the writes of a dispatch that the device did not accept
Refused(calls) ==
    {k \in DOMAIN calls : calls[k].op # "get_device_info" /\ calls[k].res # "ok"}

\* C26: every command handled is answered with a status: BAD_REQUEST for
\* SEND_CMD without a command, NOT_IMPLEMENTED for an unknown id,
\* SERVER_ERROR when the command for a device fails or raises, OK otherwise;
\* and a command that follows a failed command is still accepted and
\* carried out.
C26_HandlerReportsStatus ==
    [][now' = now =>
         /\ last'.status \in {"OK", "BAD_REQUEST", "NOT_IMPLEMENTED", "SERVER_ERROR"}
         /\ last'.kind = "send_cmd" => last'.status = "BAD_REQUEST"
         /\ last'.kind = "other" => last'.status = "NOT_IMPLEMENTED"
         /\ last'.kind \in {"rejected", "nomatch"} => last'.status = "SERVER_ERROR"
         /\ (last'.kind = "device" /\ last'.granted) =>
               (last'.status = "SERVER_ERROR"
                  <=> (last'.calls = <<>> \/ Refused(last'.calls) # {}))
         /\ (last.status = "SERVER_ERROR" /\ last'.kind = "device" /\ last'.granted
               /\ last'.calls # <<>> /\ Refused(last'.calls) = {}) =>
               last'.status = "OK"]_vars

\* C27: an individually targeted command answered OK was throttled, or every
\* transport call it made was accepted by the device.
C27_OkMeansEveryCallOk ==
    (last.kind = "device" /\ last.status = "OK") =>
        \/ last.acquired /\ ~last.granted
        \/ \A k \in DOMAIN last.calls : last.calls[k].res = "ok"

-----------------------------------------------------------------------------
(* The persisted configuration (config.py).                                *)

DefaultPort == 16021

\* device_id = f"{ip_address.replace('.', '_')}_{port}"
DeviceId(ip, port) == <<Replace(ip, <<".">>, <<"_">>), port>>

\* NanoleafConfig.add_device(ip_address, auth_token, device_info, port): the
\* record replaces the one stored under the same device_id, or is appended.
add_device(cfg, ip, auth_token, device_info, port) ==
    LET rec == [device_id |-> DeviceId(ip, port), port |-> port, token |-> auth_token]
                 @@ DeviceRecord(device_info.name, device_info.device_type,
                                 device_info.effects_list, ip # <<>>, auth_token # "")
                 @@ [ip |-> ip]
        at == {i \in DOMAIN cfg : cfg[i].device_id = rec.device_id}
    IN IF at = {} THEN Append(cfg, rec)
       ELSE [i \in DOMAIN cfg |-> IF i \in at THEN rec ELSE cfg[i]]

\* NanoleafConfig.is_configured
is_configured(cfg) == Len(cfg) > 0 /\ \E i \in DOMAIN cfg : cfg[i].auth_token

\* the part of a stored record the remote reads
RemoteRecord(c) ==
    [name |-> c.name, device_type |-> c.device_type, effects_list |-> c.effects_list,
     ip_address |-> c.ip_address, auth_token |-> c.auth_token,
     supports_brightness |-> c.supports_brightness, supports_color |-> c.supports_color,
     supports_color_temp |-> c.supports_color_temp, supports_effects |-> c.supports_effects]

-----------------------------------------------------------------------------
(* The setup flow (setup.py) and the completion callback (driver.py).      *)

AltPort == 16022

Cand(ip, port) == [ip |-> ip, port |-> port]
C_A == Cand(IP_1, DefaultPort)
C_B == Cand(IP_2, DefaultPort)
C_C == Cand(IP_3, DefaultPort)
C_D == Cand(IP_1, AltPort)

\* what client.discover_devices / scan_ip_range can come back with
DiscoveryResults == {<<>>, <<C_A, C_B>>, <<C_A, C_B, C_C, C_D>>}
DiscoveryOutcomes ==
    {[raised |-> TRUE, devs |-> <<>>]} \cup
    {[raised |-> FALSE, devs |-> d] : d \in DiscoveryResults}

\* the attributes a device answers get_device_info with, as add_device reads them
DeviceInfo(name, device_type, effects_list) ==
    [name |-> name, device_type |-> device_type, effects_list |-> effects_list]
FullInfo(ip) ==
    IF ip = IP_1 THEN DeviceInfo(N_Desk, "panels", <<>>)
    ELSE IF ip = IP_2 THEN DeviceInfo(N_TV, "elements", <<>>)
    ELSE DeviceInfo(N_Bed, "canvas", <<E_Fire, E_SnowFall>>)
\* basic_info of _pair_device_async; _determine_device_type falls back to "panels"
BasicInfo(ip) == DeviceInfo(BasicName(ip), "panels", <<>>)

\* the SetupAction a handler returns
Out(kind, detail) == [kind |-> kind, detail |-> detail]
NoOut == Out("none", "")
SetupError(e) == Out("SetupError", e)
SetupComplete == Out("SetupComplete", "")

\* overall deadline of the pairing batch (timeout=30.0), in ticks of 30 s
PairTimeout == 1

\* invocations of the completion callback the model follows
MaxCallbacks == 1

Running == batch.state = "running"

\* NanoleafRemote.__init__ on the stored records; the panels are all off or all on
NanoleafRemote_init(cfg, b) ==
    /\ devices' = [i \in DOMAIN cfg |-> RemoteRecord(cfg[i])]
    /\ simple_commands' = _generate_simple_commands([i \in DOMAIN cfg |-> RemoteRecord(cfg[i])])
    /\ global_throttle' = 0
    /\ device_throttle' = [i \in DOMAIN cfg |-> 0]
    /\ device_states' = [i \in DOMAIN cfg |-> "none"]
    /\ panelOn' = [i \in DOMAIN cfg |-> b]
    /\ last' = NoCommand
    /\ lastTx' = [i \in DOMAIN cfg |-> -1]
    /\ lastIndTx' = [i \in DOMAIN cfg |-> -1]
    /\ lastBrightness' = [i \in DOMAIN cfg |-> 0]
    /\ co' = NoCoroutines
    /\ UNCHANGED now

\* driver.on_setup_complete: the remote is built when the configuration holds
\* a credential; the callback catches the exceptions of building the remote
\* (an exception of api.set_device_state in its except branch leaves it: see
\* Resolve)
on_setup_complete(cfg) ==
    /\ callbacks < MaxCallbacks
    /\ callbacks' = callbacks + 1
    /\ IF is_configured(cfg)
       THEN \E b \in BOOLEAN : NanoleafRemote_init(cfg, b)
       ELSE UNCHANGED routerVars

\* The tasks and the lists of a pairing batch are locals of the handler that
\* ran it; they are kept for inspection until the next message is handled.
NoReport == [ok |-> <<>>, failed |-> <<>>]
ForgetBatch ==
    /\ batch' = NoBatch
    /\ report' = NoReport
    /\ elapsed' = 0

\* session.ended once out has been returned; empty: out answers an empty selection
Ended(s, out, empty) ==
    IF s.ended # "no" THEN s.ended
    ELSE IF out.kind = "SetupError" THEN (IF empty THEN "empty" ELSE "error")
    ELSE IF out.kind = "SetupComplete" THEN "complete"
    ELSE "no"

\* variant: the selection phase is entered whatever was found
DiscoveryPhase_select(o) == "selection"

\* the phase _start_breakthrough_discovery leaves: "discovery" is set before
\* the discovery runs, "selection" once candidates have been stored
DiscoveryPhase(o) == IF ~o.raised /\ o.devs # <<>> THEN "selection" ELSE "discovery"

\* the assignments to _setup_phase in _start_breakthrough_discovery
DiscoveryTrail(o) ==
    <<"discovery">> \o (IF ~o.raised /\ o.devs # <<>> THEN <<"selection">> ELSE <<>>)

\* NanoleafSetup._start_breakthrough_discovery, o the outcome of the discovery
_start_breakthrough_discovery(o) ==
    /\ setup_phase' = DiscoveryPhase(o)
    /\ discovered' = IF ~o.raised /\ o.devs # <<>> THEN o.devs ELSE discovered
    /\ setupOut' = IF o.raised THEN SetupError("OTHER")
                   ELSE IF o.devs = <<>> THEN Out("RequestUserInput", "method")
                   ELSE Out("RequestUserInput", "select")
    /\ ForgetBatch
    /\ UNCHANGED <<selected, config, callbacks>>
    /\ UNCHANGED routerVars

\* variant: the probe succeeds only if every stored device answers
_test_existing_config_all(cfg, answers) ==
    /\ Len(cfg) > 0
    /\ \A i \in DOMAIN cfg : cfg[i].ip_address /\ cfg[i].auth_token /\ answers[i]

\* NanoleafSetup._test_existing_config; answers[i] is what client.test_connection
\* returns for the i-th stored device
_test_existing_config(cfg, answers) ==
    \E i \in DOMAIN cfg : cfg[i].ip_address /\ cfg[i].auth_token /\ answers[i]

\* NanoleafSetup._handle_driver_setup_request
DriverSetupRequest(reconfigure, answers, o) ==
    /\ ~Running
    /\ \E short \in {is_configured(config) /\ ~reconfigure
                        /\ _test_existing_config(config, answers)} :
          /\ IF short
             THEN /\ on_setup_complete(config)
                  /\ setupOut' = SetupComplete
                  /\ ForgetBatch
                  /\ UNCHANGED <<setup_phase, discovered, selected, config>>
             ELSE _start_breakthrough_discovery(o)
          /\ session' =
                [msg |-> [Msg("request", reconfigure, answers, "", setup_phase) EXCEPT
                             !.ran = IF short THEN "no" ELSE "discover",
                             !.o = IF short THEN NoDiscovery ELSE o,
                             !.called = callbacks' # callbacks,
                             !.raised = ~short /\ o.raised,
                             !.trail = IF short THEN <<>> ELSE DiscoveryTrail(o)],
                 ended |-> Ended(NewSession, setupOut', FALSE),
                 picked |-> session.picked]
    /\ UNCHANGED nameVars

\* variant: an error that also sends the flow back to discovery
Refuse_restart(e) ==
    /\ setupOut' = SetupError(e)
    /\ ForgetBatch
    /\ setup_phase' = "discovery"
    /\ UNCHANGED <<discovered, selected, config, callbacks>>
    /\ UNCHANGED routerVars

\* a handler that answers with an error and changes nothing
Refuse(e) ==
    /\ setupOut' = SetupError(e)
    /\ ForgetBatch
    /\ UNCHANGED <<setup_phase, discovered, selected, config, callbacks>>
    /\ UNCHANGED routerVars

\* the candidates found: go to the selection screen
Found(devs) ==
    /\ discovered' = devs
    /\ setup_phase' = "selection"
    /\ setupOut' = Out("RequestUserInput", "select")
    /\ ForgetBatch
    /\ UNCHANGED <<selected, config, callbacks>>
    /\ UNCHANGED routerVars

\* NanoleafSetup._handle_discovery_method_selection
_handle_discovery_method_selection(method, o) ==
    IF method = "manual_valid" THEN Found(<<Cand(IP_1, DefaultPort)>>)
    ELSE IF method = "manual_invalid" THEN Refuse("OTHER")
    ELSE IF method = "scan"
    THEN (IF o.raised THEN Refuse("OTHER")
          ELSE IF o.devs = <<>> THEN Refuse("NOT_FOUND")
          ELSE Found(o.devs))
    ELSE IF method = "retry" THEN _start_breakthrough_discovery(o)
    ELSE Refuse("OTHER")

\* variant: the first three discovered candidates, ticked or not
RECURSIVE Ticked_any(_, _, _)
Ticked_any(devs, ticks, i) ==
    IF i > Len(devs) \/ i > 3 THEN <<>>
    ELSE <<devs[i]>> \o Ticked_any(devs, ticks, i + 1)

\* the first three discovered candidates whose box is ticked, in order
RECURSIVE Ticked(_, _, _)
Ticked(devs, ticks, i) ==
    IF i > Len(devs) \/ i > 3 THEN <<>>
    ELSE (IF i \in ticks THEN <<devs[i]>> ELSE <<>>) \o Ticked(devs, ticks, i + 1)

\* NanoleafSetup._handle_device_selection
_handle_device_selection(ticks) ==
    LET selected_devices == Ticked(discovered, ticks, 1)
    IN IF selected_devices = <<>> THEN Refuse("OTHER")
       ELSE /\ selected' = selected_devices
            /\ setup_phase' = "pairing"
            /\ setupOut' = Out("RequestUserConfirmation", "")
            /\ ForgetBatch
            /\ UNCHANGED <<discovered, config, callbacks>>
            /\ UNCHANGED routerVars

Methods == {"manual_valid", "manual_invalid", "manual_empty", "scan", "retry"}

\* the discovery a method selection runs
Ran(method) == IF method = "scan" THEN "scan" ELSE IF method = "retry" THEN "discover" ELSE "no"

\* the assignments to _setup_phase in _handle_discovery_method_selection
MethodTrail(method, o) ==
    IF method = "retry" THEN DiscoveryTrail(o)
    ELSE IF method = "manual_valid" \/ (method = "scan" /\ ~o.raised /\ o.devs # <<>>)
    THEN <<"selection">>
    ELSE <<>>

\* the candidates the selection screen presents: self._discovered_devices[:3]
Presented(devs) == SubSeq(devs, 1, IF Len(devs) < 3 THEN Len(devs) ELSE 3)

\* NanoleafSetup._handle_user_data_response
UserDataResponse(method, o, ticks) ==
    /\ ~Running
    /\ IF setup_phase = "discovery" THEN _handle_discovery_method_selection(method, o)
       ELSE IF setup_phase = "selection" THEN _handle_device_selection(ticks)
       ELSE Refuse("OTHER")
    /\ session' =
          [session EXCEPT
             !.msg = IF setup_phase = "discovery"
                     THEN [Msg("data", FALSE, <<>>, method, setup_phase) EXCEPT
                              !.ran = Ran(method),
                              !.o = IF Ran(method) = "no" THEN NoDiscovery ELSE o,
                              !.raised = Ran(method) # "no" /\ o.raised,
                              !.trail = MethodTrail(method, o)]
                     ELSE [Msg("data", FALSE, <<>>, "", setup_phase) EXCEPT
                              !.trail = IF setup_phase' # setup_phase
                                        THEN <<"pairing">> ELSE <<>>],
             !.ended = Ended(session, setupOut',
                             setup_phase = "selection" /\ Ticked(discovered, ticks, 1) = <<>>),
             !.picked = IF setup_phase = "selection" /\ setup_phase' = "pairing"
                        THEN [shown |-> Presented(discovered),
                              ticks |-> ticks \cap DOMAIN Presented(discovered)]
                        ELSE @]
    /\ UNCHANGED nameVars

\* one _pair_device_async coroutine: where it stands and what it returned
\*   stage  "pair" (awaiting client.pair_device), "info" (awaiting
\*          client.get_device_info), "done"
\*   res    "pending"; "none" (no credential); "raise" (an exception left the
\*          coroutine); "full" / "basic" ((auth_token, device_info) with the
\*          fetched attributes / with basic_info)
\*   cred   client.pair_device returned a credential (history)
\*   fetch  what client.get_device_info answered: "none" (not asked), "ok",
\*          "fail" (history)
Task(stage, res) == [stage |-> stage, res |-> res, cred |-> FALSE, fetch |-> "none"]

\* NanoleafDevice.__init__: self.port = 16021, whatever the device was found at;
\* it is the port of get_device_info and of every runtime call
NanoleafDevice_port == DefaultPort

\* NanoleafSetup._execute_simultaneous_pairing up to its await: one task per
\* selected candidate, all started together under one deadline
StartPairing ==
    /\ batch' = [state |-> "running",
                 tasks |-> [i \in DOMAIN selected |-> Task("pair", "pending")],
                 before |-> config, called |-> callbacks]
    /\ elapsed' = 0
    /\ report' = NoReport
    /\ setupOut' = NoOut
    /\ UNCHANGED <<setup_phase, discovered, selected, config, callbacks>>
    /\ UNCHANGED routerVars

\* NanoleafSetup._handle_user_confirmation_response
UserConfirmationResponse(confirm) ==
    /\ ~Running
    /\ IF setup_phase = "pairing"
       THEN (IF ~confirm THEN Refuse("OTHER") ELSE StartPairing)
       ELSE Refuse("OTHER")
    /\ session' = [session EXCEPT !.msg = Msg("confirm", confirm, <<>>, "", setup_phase),
                                  !.ended = Ended(session, setupOut', FALSE)]
    /\ UNCHANGED nameVars

\* variant: clear() that leaves the stored devices in place
clear_nothing(cfg) == cfg

\* NanoleafConfig.clear
clear(cfg) == <<>>

\* NanoleafSetup._handle_abort_setup
AbortDriverSetup(e) ==
    /\ ~Running
    /\ config' = clear(config)
    /\ setupOut' = SetupError(e)
    /\ ForgetBatch
    /\ session' = [session EXCEPT !.msg = Msg("abort", FALSE, <<>>, e, setup_phase),
                                  !.ended = Ended(session, SetupError(e), FALSE)]
    /\ UNCHANGED <<setup_phase, discovered, selected, callbacks>>
    /\ UNCHANGED routerVars
    /\ UNCHANGED nameVars

BatchStep(tasks) ==
    /\ batch' = [batch EXCEPT !.tasks = tasks]
    /\ UNCHANGED <<setup_phase, discovered, selected, config, elapsed, setupOut,
                   report, callbacks, session>>
    /\ UNCHANGED routerVars
    /\ UNCHANGED nameVars

\* client.pair_device answers for candidate i: a credential ("token"), None
\* ("none": refused, or an error caught in the client), or connect() raises
PairAnswers(i, r) ==
    /\ Running
    /\ elapsed < PairTimeout
    /\ i \in DOMAIN batch.tasks
    /\ batch.tasks[i].stage = "pair"
    /\ BatchStep([batch.tasks EXCEPT ![i] =
                    IF r = "token" THEN [Task("info", "pending") EXCEPT !.cred = TRUE]
                    ELSE IF r = "none" THEN Task("done", "none")
                    ELSE Task("done", "raise")])

\* variant: no attributes, no pairing
AfterInfo_strict(r) == IF r = "ok" THEN Task("done", "full") ELSE Task("done", "none")

\* _pair_device_async once get_device_info has answered: "if device_info:
\* return auth_token, device_info / else: return auth_token, basic_info"
AfterInfo(r) == IF r = "ok" THEN Task("done", "full") ELSE Task("done", "basic")

\* client.get_device_info answers for candidate i: the attributes, or None
InfoAnswers(i, r) ==
    /\ Running
    /\ elapsed < PairTimeout
    /\ i \in DOMAIN batch.tasks
    /\ batch.tasks[i].stage = "info"
    /\ BatchStep([batch.tasks EXCEPT ![i] = [AfterInfo(r) EXCEPT !.cred = TRUE, !.fetch = r]])

Unresolved == {i \in DOMAIN batch.tasks : batch.tasks[i].stage # "done"}

\* 30 s pass while the batch is awaited
BatchTick ==
    /\ Running
    /\ Unresolved # {}
    /\ elapsed < PairTimeout
    /\ elapsed' = elapsed + 1
    /\ UNCHANGED <<setup_phase, discovered, selected, config, batch, setupOut,
                   report, callbacks, session>>
    /\ UNCHANGED routerVars
    /\ UNCHANGED nameVars

\* variant: a pairing whose attribute fetch failed counts as failed
Succeeded_with_attributes(t) == t.res = "full"

\* "else: auth_token, device_info = result": the task returned a pair
Succeeded(t) == t.res \in {"full", "basic"}

\* the loop over the gathered results: config after the results from k on
RECURSIVE Persist(_, _, _)
Persist(cfg, tasks, k) ==
    IF k > Len(tasks) THEN cfg
    ELSE Persist(IF Succeeded(tasks[k])
                 THEN add_device(cfg, selected[k].ip, "token",
                                 IF tasks[k].res = "full" THEN FullInfo(selected[k].ip)
                                 ELSE BasicInfo(selected[k].ip),
                                 DefaultPort)
                 ELSE cfg,
                 tasks, k + 1)

\* ip addresses of the candidates whose task satisfies P, in task order
RECURSIVE Addresses(_, _, _)
Addresses(tasks, ok, k) ==
    IF k > Len(tasks) THEN <<>>
    ELSE (IF Succeeded(tasks[k]) = ok THEN <<selected[k].ip>> ELSE <<>>)
         \o Addresses(tasks, ok, k + 1)

\* variant: the results that are there at the deadline are admitted
on_TimeoutError_partial(cfg, tasks) == Persist(cfg, tasks, 1)

\* "except asyncio.TimeoutError": the configuration the handler leaves behind;
\* no result of the batch is looked at
on_TimeoutError(cfg, tasks) == cfg

\* variant: the gather is awaited without a deadline
Deadline_none ==
    /\ Running
    /\ Unresolved # {}
    /\ elapsed = PairTimeout
    /\ elapsed' = 0
    /\ UNCHANGED <<setup_phase, discovered, selected, config, batch, setupOut,
                   report, callbacks, session>>
    /\ UNCHANGED routerVars
    /\ UNCHANGED nameVars

\* asyncio.wait_for gives up: the tasks are cancelled, TimeoutError is caught
Deadline ==
    /\ Running
    /\ Unresolved # {}
    /\ elapsed = PairTimeout
    /\ batch' = [batch EXCEPT !.state = "cancelled"]
    /\ elapsed' = 0
    /\ config' = on_TimeoutError(config, batch.tasks)
    /\ setupOut' = SetupError("TIMEOUT")
    /\ session' = [session EXCEPT !.ended = Ended(session, SetupError("TIMEOUT"), FALSE)]
    /\ UNCHANGED <<setup_phase, discovered, selected, report, callbacks>>
    /\ UNCHANGED routerVars
    /\ UNCHANGED nameVars

\* variant: completion is reported without the completion callback
_complete_breakthrough_setup_silent(cfg, cb) ==
    /\ cb = "returns"
    /\ setupOut' = IF Len(cfg) = 0 THEN SetupError("NOT_FOUND") ELSE SetupComplete
    /\ UNCHANGED callbacks
    /\ UNCHANGED routerVars

\* NanoleafSetup._complete_breakthrough_setup on the configuration cfg; cb is
\* how the awaited completion callback ends: "returns" or "raises"
_complete_breakthrough_setup(cfg, cb) ==
    IF Len(cfg) = 0
    THEN /\ setupOut' = SetupError("NOT_FOUND")
         /\ UNCHANGED callbacks
         /\ UNCHANGED routerVars
    ELSE /\ on_setup_complete(cfg)
         /\ setupOut' = IF cb = "raises" THEN SetupError("OTHER") ELSE SetupComplete

\* NanoleafSetup._execute_simultaneous_pairing after the gather returned, with
\* _complete_breakthrough_setup
Resolve(cb) ==
    /\ Running
    /\ Unresolved = {}
    /\ \E cfg \in {Persist(config, batch.tasks, 1)} :
       \E successful_devices \in {Addresses(batch.tasks, TRUE, 1)} :
          /\ config' = cfg
          /\ report' = [ok |-> successful_devices,
                        failed |-> Addresses(batch.tasks, FALSE, 1)]
          /\ batch' = [batch EXCEPT !.state = "done"]
          /\ elapsed' = 0
          /\ IF successful_devices # <<>>
             THEN _complete_breakthrough_setup(cfg, cb)
             ELSE /\ cb = "returns"
                  /\ setupOut' = SetupError("OTHER")
                  /\ UNCHANGED callbacks
                  /\ UNCHANGED routerVars
    /\ session' = [session EXCEPT !.ended = Ended(session, setupOut', FALSE),
                                  !.msg.called = callbacks' # callbacks,
                                  !.msg.raised = cb = "raises"]
    /\ UNCHANGED <<setup_phase, discovered, selected>>
    /\ UNCHANGED nameVars

\* the batch resolves and the completion callback, if invoked, returns
BatchDone == Resolve("returns")

-----------------------------------------------------------------------------
(* SpecSetup: the setup flow from an empty or a stored configuration with  *)
(* a Remote that follows the protocol (no answer of the user after a       *)
(* terminal answer), and the pairing batch under its deadline.             *)

\* a configuration file left by an earlier setup: two devices, which the
\* driver could not reach when it started (no remote was built)
StoredConfig ==
    add_device(add_device(<<>>, IP_1, "token", FullInfo(IP_1), DefaultPort),
               IP_2, "token", FullInfo(IP_2), DefaultPort)

InitSetup ==
    /\ RouterIdle
    /\ NamesIdle
    /\ setup_phase = "discovery"
    /\ discovered = <<>>
    /\ selected = <<>>
    /\ config \in {<<>>, StoredConfig}
    /\ batch = NoBatch
    /\ elapsed = 0
    /\ setupOut = NoOut
    /\ report = NoReport
    /\ callbacks = 0
    /\ session = NewSession

\* a setup request: a reconfigure, or a first setup whose probe of the stored
\* devices fails or succeeds
SetupRequest ==
    \/ \E reconfigure \in BOOLEAN, o \in DiscoveryOutcomes :
          DriverSetupRequest(reconfigure, [i \in DOMAIN config |-> FALSE], o)
    \/ \E answers \in [DOMAIN config -> BOOLEAN] :
          /\ is_configured(config)
          /\ \E i \in DOMAIN config : answers[i]
          /\ DriverSetupRequest(FALSE, answers, NoDiscovery)

\* the Remote has not been given a terminal answer since its last setup request
Live == session.ended = "no"

\* the user's answer to an input screen
UserInput ==
    \/ /\ setup_phase = "discovery"
       /\ \/ \E method \in {"scan", "retry"}, o \in DiscoveryOutcomes :
                UserDataResponse(method, o, {})
          \/ \E method \in Methods \ {"scan", "retry"} :
                UserDataResponse(method, NoDiscovery, {})
    \/ /\ setup_phase = "selection"
       /\ \E ticks \in SUBSET (1..3) : UserDataResponse("retry", NoDiscovery, ticks)
    \/ /\ setup_phase = "pairing"
       /\ UserDataResponse("retry", NoDiscovery, {})
\* the Remote sends the user's answers to a session that has not ended
UserData == Live /\ UserInput
\* the user's answer to the confirmation screen; a batch is followed only
\* while the model can follow its completion
UserConfirmation ==
    /\ Live
    /\ \E confirm \in BOOLEAN :
          /\ confirm => callbacks < MaxCallbacks
          /\ UserConfirmationResponse(confirm)
AbortErrors == {"OTHER", "TIMEOUT"}
Abort == \E e \in AbortErrors : AbortDriverSetup(e)
PairStep == \E i \in 1..3, r \in {"token", "none", "raise"} : PairAnswers(i, r)
InfoStep == \E i \in 1..3, r \in {"ok", "fail"} : InfoAnswers(i, r)

\* setup messages are followed until the completion callback has run
SetupMessage ==
    /\ callbacks < MaxCallbacks
    /\ (SetupRequest \/ UserData \/ UserConfirmation \/ Abort)

NextSetup ==
    \/ SetupMessage
    \/ PairStep \/ InfoStep \/ BatchTick \/ Deadline \/ BatchDone

SpecSetup == InitSetup /\ [][NextSetup]_vars

-----------------------------------------------------------------------------
(* SpecFanout: the setup flow up to its completion, and then one fleet     *)
(* command on the remote the completion callback built.                    *)

\* the first command the new remote receives is a fleet command
FirstFleetCmd ==
    /\ Len(devices) > 0
    /\ last.kind = "none"
    /\ SendFleetCmd(FleetTokens, PowerNetCases)

NextFanout ==
    \/ SetupMessage
    \/ PairStep \/ InfoStep \/ BatchTick \/ Deadline \/ BatchDone
    \/ FirstFleetCmd

SpecFanout == InitSetup /\ [][NextFanout]_vars

-----------------------------------------------------------------------------
(* Properties of the pairing batch and of fan-outs.                        *)

Ips(list) == {list[k] : k \in DOMAIN list}

Stored(cand) == \E i \in DOMAIN config : config[i].ip = cand.ip /\ config[i].auth_token

\* C6: in a fleet fan-out every device has its own result and every device
\* with address and credential is reached, and in a pairing batch that has
\* resolved every candidate has run to its own outcome, is recorded under
\* it, and every success is persisted, whatever the siblings did.
C6_SiblingsUnaffected ==
    /\ (last.kind = "fleet" /\ last.cmd \in FleetTokens) =>
          /\ Len(last.results) = Len(devices)
          /\ \A i \in DevIds : HasCredentials(devices[i]) => i \in Reached(last.calls)
    /\ batch.state = "done" =>
          /\ Len(batch.tasks) = Len(selected)
          /\ \A k \in DOMAIN selected :
                /\ batch.tasks[k].stage = "done"
                /\ batch.tasks[k].res \in {"full", "basic"} =>
                      selected[k].ip \in Ips(report.ok) /\ Stored(selected[k])
                /\ batch.tasks[k].res \in {"none", "raise"} =>
                      selected[k].ip \in Ips(report.failed)

\* a batch in which one attempt raised and the others paired, followed by a
\* fleet command in which one device failed and the others succeeded
C6_Witness ==
    /\ batch.state = "done"
    /\ Len(selected) = 3
    /\ \E k \in DOMAIN selected : batch.tasks[k].res = "raise"
    /\ Len(report.ok) = 2
    /\ last.kind = "fleet"
    /\ Len(devices) = 2
    /\ \E i \in DevIds : last.results[i] = "false"
    /\ \E i \in DevIds : last.results[i] = "true"

-----------------------------------------------------------------------------
(* SpecSession: the setup flow from an empty configuration when the Remote *)
(* keeps sending the user's answers after a terminal answer, when two of   *)
(* the discovered candidates are the same address on two ports, and when   *)
(* the awaited completion callback may raise.                              *)

InitSession == InitSetup /\ config = <<>>

\* what the discovery of this session comes back with
SessionOutcomes ==
    {[raised |-> TRUE, devs |-> <<>>], [raised |-> FALSE, devs |-> <<C_D, C_A, C_B>>]}

\* a setup request; the stored devices, if any, do not answer the probe
SessionRequest ==
    \E o \in SessionOutcomes : DriverSetupRequest(FALSE, [i \in DOMAIN config |-> FALSE], o)
SessionInput ==
    \/ /\ setup_phase = "discovery"
       /\ \E o \in SessionOutcomes : UserDataResponse("retry", o, {})
    \/ /\ setup_phase = "selection"
       /\ \E ticks \in SUBSET (1..3) : UserDataResponse("retry", NoDiscovery, ticks)
    \/ /\ setup_phase = "pairing"
       /\ UserDataResponse("retry", NoDiscovery, {})
Confirmation == \E confirm \in BOOLEAN : UserConfirmationResponse(confirm)
\* the batch resolves with a success and the completion callback raises
CallbackRaises == Resolve("raises")

NextSession ==
    \/ SessionRequest \/ SessionInput \/ Confirmation
    \/ PairStep \/ InfoStep \/ BatchTick \/ Deadline \/ BatchDone \/ CallbackRaises

SpecSession == InitSession /\ [][NextSession]_vars

-----------------------------------------------------------------------------
(* Properties of the setup flow.                                           *)

\* C11: when the deadline of a pairing batch passes with an attempt still
\* unresolved, the answer is an error classified TIMEOUT, the outstanding
\* attempts stay unresolved (their results are never looked at), no result
\* list is produced, the configuration is the one the batch started from,
\* and the completion callback has not been invoked.
C11_DeadlineAdmitsNothing ==
    batch.state = "cancelled" =>
        /\ setupOut = SetupError("TIMEOUT")
        /\ Unresolved # {}
        /\ report = NoReport
        /\ config = batch.before
        /\ callbacks = batch.called

\* the deadline passed on a batch in which one candidate had already paired
\* and another had not answered
C11_Witness ==
    /\ batch.state = "cancelled"
    /\ \E k \in DOMAIN batch.tasks : batch.tasks[k].res \in {"full", "basic"}
    /\ \E k \in DOMAIN batch.tasks : batch.tasks[k].stage = "pair"
    /\ setupOut = SetupError("TIMEOUT")
    /\ config = batch.before

\* the record the configuration holds for an address
RecordsOf(ip) == {i \in DOMAIN config : config[i].ip = ip}

\* C12: in a resolved batch, a candidate whose pairing request returned a
\* credential is in the success list and not in the failure list, whether or
\* not its attributes could be fetched; when the fetch failed, the stored
\* record carries the credential and the descriptor built from the address
\* alone (the name "Nanoleaf <address>", the default family, no effects).
C12_CredentialMeansSuccess ==
    batch.state = "done" =>
        \A k \in DOMAIN selected :
            /\ batch.tasks[k].cred =>
                  /\ selected[k].ip \in Ips(report.ok)
                  /\ selected[k].ip \notin Ips(report.failed)
            /\ (batch.tasks[k].cred /\ batch.tasks[k].fetch = "fail") =>
                  /\ RecordsOf(selected[k].ip) # {}
                  /\ \A i \in RecordsOf(selected[k].ip) :
                        /\ config[i].auth_token
                        /\ config[i].name = BasicName(selected[k].ip)
                        /\ config[i].device_type = "panels"
                        /\ config[i].effects_list = <<>>

\* a batch in which one candidate paired but did not give its attributes,
\* while another gave no credential
C12_Witness ==
    /\ batch.state = "done"
    /\ \E k \in DOMAIN selected :
          /\ batch.tasks[k].cred
          /\ batch.tasks[k].fetch = "fail"
          /\ selected[k].ip \in Ips(report.ok)
          /\ \E i \in RecordsOf(selected[k].ip) : config[i].name = BasicName(selected[k].ip)
    /\ \E k \in DOMAIN selected : batch.tasks[k].res = "none"
    /\ setupOut = SetupComplete

\* the candidates of the batch whose pairing request returned a credential
Paired == {k \in DOMAIN selected : batch.tasks[k].cred}

\* C13: after a batch that completed with successes, the configuration
\* holds for every paired candidate a record with that candidate's address,
\* port and a credential, and a batch started on an empty configuration
\* leaves as many records as candidates paired.
C13_OneRecordPerDevice ==
    (batch.state = "done" /\ Paired # {}) =>
        /\ \A k \in Paired :
              \E i \in DOMAIN config :
                  /\ config[i].ip = selected[k].ip
                  /\ config[i].port = selected[k].port
                  /\ config[i].auth_token
        /\ batch.before = <<>> => Len(config) = Cardinality(Paired)

\* C14: once an empty selection has been answered with an error, the phase
\* is not pairing and no pairing batch is started until a new setup request.
C14_EmptySelectionIsTerminal ==
    session.ended = "empty" =>
        /\ setup_phase # "pairing"
        /\ batch.state = "idle"

\* C15: once SetupComplete has been returned, no confirmation or input
\* starts a pairing batch or a discovery until a new setup request: the only
\* batch there can be is the resolved one that completed the setup.
C15_CompleteIsTerminal ==
    session.ended = "complete" =>
        /\ batch.state \in {"idle", "done"}
        /\ batch.state = "done" => setupOut = SetupComplete
        /\ session.msg.type = "data" => session.msg.ran = "no"

\* the records of the configuration that the batch found there
KeptRecords == {i \in DOMAIN config : \E j \in DOMAIN batch.before : batch.before[j] = config[i]}

\* C17: when a handler answers with an error from one of its except branches
\* (discovery raised, the completion step raised), the configuration holds
\* no record written by the pairing batch of that handler.
C17_ErrorLeavesNoRecord ==
    (session.msg.raised /\ setupOut.kind = "SetupError") =>
        (batch.state = "done" => KeptRecords = DOMAIN config)

\* C16: an abort, in whatever phase it is handled, is answered with an error
\* carrying the abort's classification and leaves the configuration without
\* devices, so that is_configured is false.
C16_AbortClears ==
    session.msg.type = "abort" =>
        /\ setupOut = SetupError(session.msg.method)
        /\ Len(config) = 0
        /\ ~is_configured(config)

\* an abort classified TIMEOUT, handled in the pairing phase while the
\* configuration held devices
C16_Witness ==
    /\ session.msg.type = "abort"
    /\ session.msg.phase = "pairing"
    /\ session.msg.method = "TIMEOUT"
    /\ session.msg.stored > 0
    /\ setupOut = SetupError("TIMEOUT")
    /\ Len(config) = 0

\* the stored devices that hold an address and a credential and answer the probe
Answering == {i \in DOMAIN config :
                 config[i].ip_address /\ config[i].auth_token /\ session.msg.probe[i]}

C19_DiscoveryBranches ==
    (session.msg.ran = "discover" /\ ~session.msg.o.raised) =>
        IF session.msg.o.devs = <<>>
        THEN /\ setupOut = Out("RequestUserInput", "method")
             /\ setup_phase = "discovery"
        ELSE /\ discovered = session.msg.o.devs
             /\ setup_phase = "selection"
             /\ setupOut = Out("RequestUserInput", "select")

\* a retry, after a discovery that had found nothing, finds candidates
C19_Witness ==
    /\ session.msg.type = "data"
    /\ session.msg.method = "retry"
    /\ session.msg.phase = "discovery"
    /\ session.msg.ran = "discover"
    /\ session.msg.o.devs # <<>>
    /\ discovered = session.msg.o.devs
    /\ setup_phase = "selection"

\* the phase cursor before the message handled last and the values its
\* handler gave it, in order
Cursor == <<session.msg.phase>> \o session.msg.trail

\* C28: the phase cursor moves from discovery to selection and from selection
\* to pairing, never from pairing to selection; it is set back to discovery
\* only by the discovery a setup request or a retry input starts; user
\* input in the pairing phase and a confirmation outside the pairing phase
\* are answered with an error and leave the phase as it was.
C28_PhaseOrder ==
    /\ setup_phase = Cursor[Len(Cursor)]
    /\ \A k \in 1..(Len(Cursor) - 1) :
          /\ ~(Cursor[k] = "pairing" /\ Cursor[k + 1] = "selection")
          /\ Cursor[k + 1] = "selection" => Cursor[k] = "discovery"
          /\ Cursor[k + 1] = "pairing" => Cursor[k] = "selection"
          /\ Cursor[k + 1] = "discovery" =>
                \/ session.msg.type = "request"
                \/ session.msg.type = "data" /\ session.msg.method = "retry"
    /\ (session.msg.type = "data" /\ session.msg.phase = "pairing") =>
          /\ setupOut.kind = "SetupError"
          /\ setup_phase = "pairing"
    /\ (session.msg.type = "confirm" /\ session.msg.phase # "pairing") =>
          /\ setupOut.kind = "SetupError"
          /\ setup_phase = session.msg.phase

\* a setup request received in the pairing phase restarts discovery, which
\* finds candidates: the cursor goes pairing, discovery, selection
C28_Witness ==
    /\ session.msg.type = "request"
    /\ Cursor = <<"pairing", "discovery", "selection">>
    /\ setup_phase = "selection"

\* the j-th ticked candidate of a selection
Pick(p, j) ==
    p.shown[CHOOSE k \in p.ticks : Cardinality({x \in p.ticks : x < k}) = j - 1]

\* C29: the pairing requests of a batch were started by a confirmation with
\* confirm = true received in the pairing phase, and go to the candidates
\* that were ticked, among the first 3 candidates of the latest discovery,
\* in the selection that led to the pairing phase; a declined confirmation
\* starts no batch.
C29_PairingOnlyAfterConfirm ==
    /\ batch.tasks # <<>> =>
          /\ session.msg.type = "confirm"
          /\ session.msg.flag
          /\ session.msg.phase = "pairing"
          /\ session.picked.shown = Presented(discovered)
          /\ Len(session.picked.shown) <= 3
          /\ Len(batch.tasks) = Cardinality(session.picked.ticks)
          /\ Len(selected) = Len(batch.tasks)
          /\ \A j \in DOMAIN batch.tasks : selected[j] = Pick(session.picked, j)
    /\ (session.msg.type = "confirm" /\ ~session.msg.flag) =>
          /\ batch.tasks = <<>>
          /\ setupOut.kind = "SetupError"

\* four candidates were discovered, the first and the third were ticked,
\* the user confirmed, and both pairing requests have been answered
C29_Witness ==
    /\ Len(discovered) = 4
    /\ session.picked.ticks = {1, 3}
    /\ session.msg.type = "confirm" /\ session.msg.flag
    /\ Len(batch.tasks) = 2
    /\ selected = <<discovered[1], discovered[3]>>
    /\ \A j \in DOMAIN batch.tasks : batch.tasks[j].stage # "pair"

-----------------------------------------------------------------------------
(* Device family and SKU (config.py, client.py).                           *)

\* a key the attribute bag does not have
NoKey == <<"(absent)">>

\* device_info.get(key, default)
Get(device_info, key, default) ==
    IF device_info[key] = NoKey THEN default ELSE device_info[key]

S_Unknown == <<"U","n","k","n","o","w","n">>
S_NL22 == <<"N","L","2","2">>
S_NL42 == <<"N","L","4","2">>
S_NL29 == <<"N","L","2","9">>
S_NL52 == <<"N","L","5","2">>
S_NL59 == <<"N","L","5","9">>
S_NL64 == <<"N","L","6","4">>
S_NL69 == <<"N","L","6","9">>
S_ELEMENTS == <<"E","L","E","M","E","N","T","S">>
S_CANVAS == <<"C","A","N","V","A","S">>
S_SHAPES == <<"S","H","A","P","E","S">>
S_LINES == <<"L","I","N","E","S">>
S_STRIP == <<"S","T","R","I","P">>
S_LIGHT_PANELS == <<"L","I","G","H","T","_","P","A","N","E","L","S">>
S_PANELS == <<"P","A","N","E","L","S">>

\* the family names as Python strings
FamilyText(t) ==
    CASE t = "light_panels" -> S_LIGHT_PANELS
      [] t = "canvas" -> S_CANVAS
      [] t = "shapes" -> S_SHAPES
      [] t = "elements" -> S_ELEMENTS
      [] t = "lines" -> S_LINES
      [] t = "strip" -> S_STRIP
      [] OTHER -> S_PANELS

\* NanoleafConfig._determine_device_type
Config_determine_device_type(device_info) ==
    LET model == Upper(Get(device_info, "model", <<>>))
        name == Upper(Get(device_info, "name", <<>>))
    IN  IF Contains(model, S_NL22) \/ Contains(model, S_NL42) THEN "light_panels"
        ELSE IF Contains(model, S_NL29) THEN "canvas"
        ELSE IF Contains(model, S_NL52) \/ Contains(model, S_NL59) THEN "shapes"
        ELSE IF Contains(model, S_NL64) THEN "elements"
        ELSE IF Contains(model, S_NL69) THEN "lines"
        ELSE IF Contains(name, S_ELEMENTS) THEN "elements"
        ELSE IF Contains(name, S_CANVAS) THEN "canvas"
        ELSE IF Contains(name, S_SHAPES) THEN "shapes"
        ELSE IF Contains(name, S_LINES) THEN "lines"
        ELSE IF Contains(name, S_STRIP) THEN "strip"
        ELSE "panels"

\* NanoleafConfig._determine_sku
Config_determine_sku(device_info) ==
    LET model == Get(device_info, "model", S_Unknown)
    IN  IF model # <<>> /\ model # S_Unknown THEN model
        ELSE Upper(FamilyText(Config_determine_device_type(device_info)))

\* f"Nanoleaf {ip_address}" for the address the device object is built with
S_DefaultName == <<"N","a","n","o","l","e","a","f"," ","1","0",".","0",".","0",".","5">>

\* NanoleafDevice.__init__: self.name and self.model of a device built from
\* an attribute bag
Device_attrs(device_info) ==
    [name |-> Get(device_info, "name", S_DefaultName),
     model |-> Get(device_info, "model", S_Unknown)]

\* NanoleafDevice._determine_device_type
Device_determine_device_type(self) ==
    LET model == Upper(self.model)
    IN  IF Contains(model, S_NL22) \/ Contains(model, S_NL42) THEN "light_panels"
        ELSE IF Contains(model, S_NL29) THEN "canvas"
        ELSE IF Contains(model, S_NL52) \/ Contains(model, S_NL59) THEN "shapes"
        ELSE IF Contains(model, S_NL64) THEN "elements"
        ELSE IF Contains(model, S_NL69) THEN "lines"
        ELSE IF Contains(Upper(self.name), S_STRIP) THEN "strip"
        ELSE "panels"

\* NanoleafDevice._determine_sku
Device_determine_sku(self) ==
    IF self.model # <<>> /\ self.model # S_Unknown THEN self.model
    ELSE Upper(FamilyText(Device_determine_device_type(self)))

\* the model strings a device reports: none, empty, "Unknown", each family
\* code, a code in lower case inside a longer string, a code of no known
\* family, two codes of different families
Models ==
    {NoKey, <<>>, S_Unknown, S_NL22, S_NL42, S_NL29, S_NL52, S_NL59, S_NL64, S_NL69,
     <<"n","l","4","2","-","6","0","0","2">>, <<"N","L","9","9">>,
     S_NL64 \o <<"/">> \o S_NL29}

\* the names a device reports: none, no keyword, each keyword in some
\* spelling, two keywords
DeviceNames ==
    {NoKey, N_Desk, <<"E","l","e","m","e","n","t","s">>, <<"m","y"," ","c","a","n","v","a","s">>,
     <<"S","h","a","p","e","s">>, <<"L","i","n","e","s">>,
     <<"L","i","g","h","t"," ","S","t","r","i","p">>,
     <<"C","a","n","v","a","s"," ","L","i","n","e","s">>}

NotClassified == [done |-> FALSE, device_type |-> "", sku |-> <<>>]

InitClassify ==
    /\ RouterIdle /\ SetupIdle
    /\ rawName = <<>> /\ cleanOnce = Unset /\ cleanTwice = Unset /\ dumps = <<>>
    /\ \E model \in Models, name \in DeviceNames :
          described = [device_info |-> [model |-> model, name |-> name],
                       config |-> NotClassified, device |-> NotClassified]

\* NanoleafConfig.add_device derives device_type and sku of the stored record
ConfigClassifies ==
    /\ described # <<>>
    /\ ~described.config.done
    /\ described' = [described EXCEPT !.config =
                        [done |-> TRUE,
                         device_type |-> Config_determine_device_type(described.device_info),
                         sku |-> Config_determine_sku(described.device_info)]]
    /\ UNCHANGED <<rawName, cleanOnce, cleanTwice, dumps>>
    /\ UNCHANGED routerVars
    /\ UNCHANGED setupVars

\* NanoleafDevice(ip, device_info=...) derives device_type and sku
DeviceClassifies ==
    /\ described # <<>>
    /\ ~described.device.done
    /\ described' = [described EXCEPT !.device =
                        [done |-> TRUE,
                         device_type |-> Device_determine_device_type(
                                             Device_attrs(described.device_info)),
                         sku |-> Device_determine_sku(Device_attrs(described.device_info))]]
    /\ UNCHANGED <<rawName, cleanOnce, cleanTwice, dumps>>
    /\ UNCHANGED routerVars
    /\ UNCHANGED setupVars

NextClassify == ConfigClassifies \/ DeviceClassifies

SpecClassify == InitClassify /\ [][NextClassify]_vars

\* the family codes and the name keywords, with their families
FamilyCodes ==
    {<<S_NL22, "light_panels">>, <<S_NL42, "light_panels">>, <<S_NL29, "canvas">>,
     <<S_NL52, "shapes">>, <<S_NL59, "shapes">>, <<S_NL64, "elements">>,
     <<S_NL69, "lines">>}
FamilyKeywords ==
    {<<S_ELEMENTS, "elements">>, <<S_CANVAS, "canvas">>, <<S_SHAPES, "shapes">>,
     <<S_LINES, "lines">>, <<S_STRIP, "strip">>}

\* the families of the entries of a table that occur in a text, any case
FamiliesIn(attr, table) ==
    {e[2] : e \in {x \in table : attr # NoKey /\ Contains(Upper(attr), x[1])}}

\* a classification follows the rule: a family code in the model decides,
\* otherwise a keyword in the name, otherwise panels; the SKU is the model
\* when there is one, otherwise the family in upper case
Classified(device_info, c) ==
    LET byModel == FamiliesIn(device_info.model, FamilyCodes)
        byName == FamiliesIn(device_info.name, FamilyKeywords)
        known == device_info.model \notin {NoKey, <<>>, S_Unknown}
    IN  /\ byModel # {} => c.device_type \in byModel
        /\ (byModel = {} /\ byName # {}) => c.device_type \in byName
        /\ (byModel = {} /\ byName = {}) => c.device_type = "panels"
        /\ c.sku = IF known THEN device_info.model ELSE Upper(FamilyText(c.device_type))

\* C30: the family a device is given is the family of a code its model
\* contains whatever its name is, otherwise the family of a keyword its name
\* contains, otherwise panels; its SKU is its model string when it has one
\* and the family in upper case otherwise. Both the stored record and the
\* device object are classified this way.
C30_ModelThenName ==
    /\ described # <<>> /\ described.config.done =>
          Classified(described.device_info, described.config)
    /\ described # <<>> /\ described.device.done =>
          Classified(described.device_info, described.device)

\* the stored records alone follow the rule
ConfigFollowsRule ==
    described # <<>> /\ described.config.done =>
        Classified(described.device_info, described.config)

\* C40: the two classifiers agree: the family and the SKU the configuration
\* stores for an attribute bag are the family and the SKU the device object
\* derives from the same bag.
C40_ClassifiersAgree ==
    (described # <<>> /\ described.config.done /\ described.device.done) =>
        /\ described.config.device_type = described.device.device_type
        /\ described.config.sku = described.device.sku

-----------------------------------------------------------------------------
(* Frame of the throttle state (Spec).                                     *)

\* C31: the throttle state changes only when an acquire is granted for an
\* individually targeted command: a refused acquire leaves the global
\* timestamp and every device's timestamp as they were, a granted acquire
\* for device d changes the global timestamp and d's timestamp and no
\* other, and a fleet command consults no acquire, changes no timestamp and
\* reaches every device that has credentials whatever the timestamps are.
C31_ThrottleFrame ==
    [][/\ (global_throttle' # global_throttle \/ device_throttle' # device_throttle) =>
             /\ last'.kind = "device"
             /\ last'.acquired /\ last'.granted
             /\ \A e \in DevIds \ {last'.target} : device_throttle'[e] = device_throttle[e]
       /\ (last'.acquired /\ ~last'.granted) =>
             /\ global_throttle' = global_throttle
             /\ device_throttle' = device_throttle
       /\ last'.kind = "fleet" =>
             /\ ~last'.acquired
             /\ global_throttle' = global_throttle
             /\ device_throttle' = device_throttle
             /\ \A i \in DevIds : HasCredentials(devices[i]) => i \in Reached(last'.calls)]_vars

\* a fleet command handled 0.05 s after a granted acquire reached its
\* devices and left the timestamps of that acquire in place
C31_Witness ==
    /\ last.kind = "fleet"
    /\ last.calls # <<>>
    /\ now - global_throttle = 1
    /\ \E d \in DevIds : device_throttle[d] = global_throttle
    /\ \E e \in DevIds : device_throttle[e] = 0

\* C39: an individually targeted command that is not throttled and issues
\* no transport call (its action is not recognised, or the record of its
\* device lacks the address or the credential) is answered with a failure
\* and leaves the global timestamp and every device's timestamp as they
\* were.
C39_NoActionKeepsThrottle ==
    [][(last'.kind = "device" /\ last'.acquired /\ last'.granted /\ last'.calls = <<>>) =>
          /\ last'.status = "SERVER_ERROR"
          /\ global_throttle' = global_throttle
          /\ device_throttle' = device_throttle]_vars

\* C37: a device keeps the address and the port it was discovered and paired
\* at: the attribute fetch that follows its pairing goes to that port, the
\* record persisted for it holds that address and that port, and the device
\* object every runtime command is sent through uses that port.
C37_IdentityKept ==
    \A k \in DOMAIN batch.tasks :
        /\ batch.tasks[k].fetch # "none" => NanoleafDevice_port = selected[k].port
        /\ (batch.state = "done" /\ Succeeded(batch.tasks[k])) =>
              \E i \in DOMAIN config :
                 /\ config[i].ip = selected[k].ip
                 /\ config[i].port = selected[k].port
                 /\ NanoleafDevice_port = config[i].port

\* C38: when SetupComplete is returned, by the short-circuit of a setup
\* request or after a pairing batch, the persisted configuration holds a
\* record with a credential, and the handler that returns it has invoked the
\* completion callback, once.
C38_CompleteMeansConfigured ==
    [][setupOut'.kind = "SetupComplete" =>
          /\ is_configured(config')
          /\ \E i \in DOMAIN config' : config'[i].token # ""
          /\ session'.msg.called
          /\ (session' # session \/ setupOut' # setupOut) => callbacks' = callbacks + 1]_vars

\* SetupComplete after a batch in which one candidate was paired and
\* another was not
C38_Witness ==
    /\ setupOut.kind = "SetupComplete"
    /\ session.msg.type = "confirm"
    /\ report.ok # <<>> /\ report.failed # <<>>
    /\ callbacks = batch.called + 1
    /\ Len(config) = 1

-----------------------------------------------------------------------------
(* SpecPairing: the pairing phase on its own, with the scheduling the      *)
(* event loop provides: time passes while the batch is awaited, the        *)
(* deadline of wait_for fires, and the handler goes on once the gather has *)
(* returned.  Nothing is assumed about the devices: a pairing request or   *)
(* an attribute fetch may stay unanswered for ever.                        *)

\* the selections the pairing phase is entered with
PairingTicks == {{1}, {1, 2}, {2, 3}}

\* the state _handle_device_selection leaves: two or three candidates were
\* discovered and some of them ticked
InitPairing ==
    /\ RouterIdle
    /\ NamesIdle
    /\ setup_phase = "pairing"
    /\ config = <<>>
    /\ discovered \in {<<C_A, C_B>>, <<C_D, C_A, C_B>>}
    /\ \E ticks \in PairingTicks :
          /\ ticks \subseteq DOMAIN discovered
          /\ selected = Ticked(discovered, ticks, 1)
          /\ session = [msg |-> [Msg("data", FALSE, <<>>, "", "selection") EXCEPT
                                    !.stored = 0, !.trail = <<"pairing">>],
                        ended |-> "no",
                        picked |-> [shown |-> Presented(discovered), ticks |-> ticks]]
    /\ batch = NoBatch
    /\ elapsed = 0
    /\ setupOut = Out("RequestUserConfirmation", "")
    /\ report = NoReport
    /\ callbacks = 0

NextPairing ==
    \/ UserConfirmation
    \/ PairStep \/ InfoStep \/ BatchTick \/ Deadline \/ BatchDone

SpecPairing ==
    /\ InitPairing
    /\ [][NextPairing]_vars
    /\ WF_vars(BatchTick)
    /\ WF_vars(Deadline)
    /\ WF_vars(BatchDone)

\* the handler of the confirmation has returned a terminal answer
Answered ==
    /\ ~Running
    /\ setupOut.kind \in {"SetupComplete", "SetupError"}

\* C34: once the user has confirmed and the pairing batch is running, the
\* handler eventually returns SetupComplete or SetupError, also when
\* pairing attempts of the batch are never answered.
C34_PairingAnswers == Running ~> Answered

\* the deadline has ended a batch in which one candidate had answered and
\* another never did
C34_Witness ==
    /\ batch.state = "cancelled"
    /\ setupOut = SetupError("TIMEOUT")
    /\ \E i \in DOMAIN batch.tasks : batch.tasks[i].stage = "pair"
    /\ \E i \in DOMAIN batch.tasks : batch.tasks[i].stage = "done"

-----------------------------------------------------------------------------
(* SpecAbort: the pairing phase with an abort that is handled while the    *)
(* handler of the confirmation is suspended in its await of the batch.     *)

\* NanoleafSetup._handle_abort_setup, handled while the batch is awaited: the
\* handler that awaits the batch is not cancelled and keeps its tasks
AbortWhilePairing ==
    \E e \in AbortErrors :
        /\ Running
        /\ config' = clear(config)
        /\ setupOut' = SetupError(e)
        /\ session' = [session EXCEPT !.msg = Msg("abort", FALSE, <<>>, e, setup_phase),
                                      !.ended = Ended(session, SetupError(e), FALSE)]
        /\ UNCHANGED <<setup_phase, discovered, selected, batch, elapsed, report, callbacks>>
        /\ UNCHANGED routerVars
        /\ UNCHANGED nameVars

NextAbort == NextPairing \/ AbortWhilePairing

SpecAbort == InitPairing /\ [][NextAbort]_vars

\* C36: after an abort that was handled while a pairing batch was in
\* flight, and until the next setup request, no device record is written
\* and the completion callback is not invoked: the configuration stays
\* empty and no remote is built.
C36_AbortDiscardsBatch ==
    (session.msg.type = "abort" /\ batch.state # "idle") =>
        /\ config = <<>>
        /\ callbacks = batch.called
        /\ devices = <<>>

-----------------------------------------------------------------------------
(* SpecTasks: power commands handled concurrently.  Every command is a     *)
(* coroutine on the one event loop: it runs without interruption from one  *)
(* await of a transport call to the next, and other coroutines run while   *)
(* it is suspended.  A transport call is two steps: the device handles the *)
(* request, and later the awaiting coroutine is resumed with the answer.   *)
(* The answers of two calls may come back in either order.                 *)

\* commands followed in one behaviour, and per-device operations they start
MaxCommands == 2
MaxJobs == 3

\* the per-device operations the commands have started
JobCount(cmds) ==
    Cardinality({e \in (DOMAIN cmds) \X DevIds : e[2] \in DOMAIN cmds[e[1]].jobs})

\* One per-device operation of a command:
\*   pc        "read" (suspended in get_device_info), "write" (suspended in
\*             turn_on / turn_off), "done"
\*   answered  the device has handled the request the operation awaits
\*   seen      the answer to the read the operation is about to be resumed
\*             with: "on", "off", or "fail"
\*   target    the power value of the write
\*   wres      the answer to the write the operation is about to be resumed
\*             with: "ok", "fail", "raise"
\*   res       what the operation returned: "pending", "true", "false"
Job(dev, action) ==
    [dev |-> dev, action |-> action,
     pc |-> IF action = "toggle" THEN "read" ELSE "write",
     answered |-> FALSE, seen |-> "", target |-> (action = "turn_on"),
     wres |-> "", res |-> "pending"]

\* "if not ip_address or not auth_token: return False", before any await
SkippedJob(dev, action) == [Job(dev, action) EXCEPT !.pc = "done", !.res = "false"]

\* the action of an individually targeted power command
PowerAction(action_part) ==
    IF action_part = W_ON THEN "turn_on"
    ELSE IF action_part = W_OFF THEN "turn_off"
    ELSE "toggle"

\* cmd_handler up to the first await of a transport call: the fleet branch
\* creates one coroutine per device, the device branch consults the throttle
\* (no await inside _check_throttle) and goes on to its action
StartCommand(command) ==
    /\ Len(co.cmds) < MaxCommands
    /\ IF StartsWith(command, W_ALL_)
       THEN /\ co' = [co EXCEPT !.cmds = Append(@,
                        [cmd |-> command, kind |-> "fleet", target |-> 0, at |-> now,
                         granted |-> FALSE,
                         jobs |-> [i \in DOMAIN devices |->
                                     IF HasCredentials(devices[i])
                                     THEN Job(i, FleetAction(command))
                                     ELSE SkippedJob(i, FleetAction(command))],
                         results |-> <<>>, status |-> ""])]
            /\ UNCHANGED <<global_throttle, device_throttle>>
       ELSE LET matching == {i \in DOMAIN devices :
                               StartsWith(command, DevicePrefix(devices[i]) \o US)}
                i == CHOOSE k \in matching : \A j \in matching : k <= j
                th == _check_throttle(i, now, global_throttle, device_throttle)
                action_part == SubSeq(command, Len(DevicePrefix(devices[i])) + 2, Len(command))
            IN /\ matching # {}
               /\ global_throttle' = th.gt
               /\ device_throttle' = th.dt
               /\ co' = [co EXCEPT !.cmds = Append(@,
                           [cmd |-> command, kind |-> "device", target |-> i, at |-> now,
                            granted |-> th.ok,
                            jobs |-> IF ~th.ok THEN <<>>
                                     ELSE IF HasCredentials(devices[i])
                                     THEN <<Job(i, PowerAction(action_part))>>
                                     ELSE <<SkippedJob(i, PowerAction(action_part))>>,
                            results |-> <<>>,
                            status |-> IF ~th.ok THEN "OK"
                                       ELSE IF HasCredentials(devices[i]) THEN ""
                                       ELSE "SERVER_ERROR"])]
    /\ JobCount(co'.cmds) <= MaxJobs
    /\ UNCHANGED <<devices, simple_commands, now, device_states, panelOn, last, lastTx,
                   lastIndTx, lastBrightness>>
    /\ UNCHANGED nameVars
    /\ UNCHANGED setupVars

\* the device handles the request operation j of command c awaits: it reports
\* its power state, or applies the power value unless it refuses the write
\* ("raise": the request could not be made)
DeviceAnswers(c, j, r) ==
    /\ c \in DOMAIN co.cmds
    /\ j \in DOMAIN co.cmds[c].jobs
    /\ LET job == co.cmds[c].jobs[j]
       IN /\ job.pc \in {"read", "write"}
          /\ ~job.answered
          /\ IF job.pc = "read"
             THEN /\ r \in {"ok", "fail"}
                  /\ co' = [co EXCEPT !.cmds[c].jobs[j] =
                              [job EXCEPT !.answered = TRUE,
                                          !.seen = IF r = "fail" THEN "fail"
                                                   ELSE IF panelOn[job.dev] THEN "on"
                                                   ELSE "off"]]
                  /\ UNCHANGED panelOn
             ELSE /\ co' = [co EXCEPT !.cmds[c].jobs[j] =
                              [job EXCEPT !.answered = TRUE, !.wres = r]]
                  /\ panelOn' = IF r = "ok" THEN [panelOn EXCEPT ![job.dev] = job.target]
                                ELSE panelOn
    /\ UNCHANGED <<devices, simple_commands, now, global_throttle, device_throttle,
                   device_states, last, lastTx, lastIndTx, lastBrightness>>
    /\ UNCHANGED nameVars
    /\ UNCHANGED setupVars

\* the operation is resumed with the answer it awaited: after the read,
\* _get_device_state caches the state and the toggle issues the opposite
\* write; after the write, "if result: self._device_states[device_id] = ..."
\* and the operation returns (an exception is caught and False returned)
Resume(c, j) ==
    /\ c \in DOMAIN co.cmds
    /\ j \in DOMAIN co.cmds[c].jobs
    /\ LET job == co.cmds[c].jobs[j]
           d == job.dev
       IN /\ job.pc \in {"read", "write"}
          /\ job.answered
          /\ IF job.pc = "read"
             THEN LET g == _get_device_state(d, IF job.seen = "fail" THEN "fail" ELSE "ok",
                                             device_states[d], job.seen = "on")
                  IN /\ device_states' = [device_states EXCEPT ![d] = g.cache]
                     /\ co' = [co EXCEPT !.cmds[c].jobs[j] =
                                 [job EXCEPT !.pc = "write", !.answered = FALSE,
                                             !.seen = "", !.target = ~g.state]]
             ELSE LET p == PowerCmd(d, job.target, job.wres, device_states[d], panelOn[d])
                      res == IF p.res = "true" THEN "true" ELSE "false"
                  IN /\ device_states' = [device_states EXCEPT ![d] = p.cache]
                     /\ co' = [co EXCEPT
                                 !.cmds[c].jobs[j] = [job EXCEPT !.pc = "done", !.wres = "",
                                                                 !.res = res],
                                 !.cmds[c].status = IF co.cmds[c].kind = "device"
                                                    THEN StatusOf(res = "true") ELSE @,
                                 !.order = IF co.cmds[c].kind = "fleet"
                                           THEN Append(@, <<c, j>>) ELSE @]
    /\ UNCHANGED <<devices, simple_commands, now, global_throttle, device_throttle,
                   panelOn, last, lastTx, lastIndTx, lastBrightness>>
    /\ UNCHANGED nameVars
    /\ UNCHANGED setupVars

\* the operations of fleet command c in the order in which they ended
Completed(order, c) == SelectSeq(order, LAMBDA e : e[1] = c)

\* variant: the results are taken in the order in which the operations ended
gather_results_as_completed(jobs, order, c) ==
    [k \in DOMAIN jobs |->
        IF k <= Len(Completed(order, c)) THEN jobs[Completed(order, c)[k][2]].res
        ELSE jobs[k].res]

\* results = await asyncio.gather(*tasks, return_exceptions=True): the
\* result of every operation, in the order in which the tasks were created
gather_results(jobs, order, c) == [k \in DOMAIN jobs |-> jobs[k].res]

\* the gather of a fleet command returns once every operation has ended;
\* the loop over the results counts the successes
Gathered(c) ==
    /\ c \in DOMAIN co.cmds
    /\ co.cmds[c].kind = "fleet"
    /\ co.cmds[c].status = ""
    /\ \A j \in DOMAIN co.cmds[c].jobs : co.cmds[c].jobs[j].pc = "done"
    /\ LET results == gather_results(co.cmds[c].jobs, co.order, c)
       IN co' = [co EXCEPT !.cmds[c].results = results,
                           !.cmds[c].status = StatusOf(Len(results) > 0 /\ FleetVerdict(results))]
    /\ UNCHANGED <<devices, simple_commands, now, global_throttle, device_throttle,
                   device_states, panelOn, last, lastTx, lastIndTx, lastBrightness>>
    /\ UNCHANGED nameVars
    /\ UNCHANGED setupVars

\* time passes between the arrival of an individually targeted command and
\* of the next command: 0.05 s, the global cool-down or the device cool-down
Elapse ==
    /\ Len(co.cmds) = 1
    /\ co.cmds[1].kind = "device"
    /\ now = StartTime
    /\ \E dt \in {1, GlobalCooldown, DeviceCooldown} : now' = now + dt
    /\ UNCHANGED <<devices, simple_commands, global_throttle, device_throttle,
                   device_states, panelOn, last, lastTx, lastIndTx, lastBrightness, co>>
    /\ UNCHANGED nameVars
    /\ UNCHANGED setupVars

InitTasks == RouterInit({<<Desk>>, <<Desk, TV>>}) /\ NamesIdle /\ SetupIdle

Arrives ==
    \E command \in CommandsFor(devices, PowerSuffixes) \cup {ALL_ON, ALL_OFF, ALL_TOGGLE} :
        StartCommand(command)
Answers == \E c \in 1..MaxCommands, j \in DevIds, r \in {"ok", "fail", "raise"} :
              DeviceAnswers(c, j, r)
Resumes == \E c \in 1..MaxCommands, j \in DevIds : Resume(c, j)
Gathers == \E c \in 1..MaxCommands : Gathered(c)

NextTasks == Arrives \/ Answers \/ Resumes \/ Gathers \/ Elapse

SpecTasks == InitTasks /\ [][NextTasks]_vars


\* two commands of which the second arrived within the device cool-down of
\* the first, both individually targeted at the same device
SameDeviceWithinCooldown(c1, c2) ==
    /\ c1 < c2
    /\ co.cmds[c1].kind = "device"
    /\ co.cmds[c2].kind = "device"
    /\ co.cmds[c1].target = co.cmds[c2].target
    /\ co.cmds[c2].at - co.cmds[c1].at < DeviceCooldown

\* C33: of two individually targeted commands to the same device handled
\* concurrently within the cool-down, the first to consult the throttle is
\* granted and the other is throttled: it starts no per-device operation and
\* answers OK, whatever the first has or has not yet finished
C33_OneGrantedOneThrottled ==
    \A c1 \in DOMAIN co.cmds, c2 \in DOMAIN co.cmds :
        (SameDeviceWithinCooldown(c1, c2) /\ co.cmds[c1].granted) =>
            /\ ~co.cmds[c2].granted
            /\ co.cmds[c2].jobs = <<>>
            /\ co.cmds[c2].status = "OK"

\* the second command was throttled while the operation of the first was
\* still suspended in its transport call
C33_Witness ==
    /\ Len(co.cmds) = 2
    /\ SameDeviceWithinCooldown(1, 2)
    /\ co.cmds[1].granted
    /\ co.cmds[1].jobs[1].pc = "write"
    /\ ~co.cmds[1].jobs[1].answered
    /\ ~co.cmds[2].granted

\* C32: a fleet command has its combined result only when every one of its
\* per-device operations has ended, and then entry k of the results is the
\* outcome of the operation on device k and the status is OK exactly when
\* some operation succeeded, in whatever order the operations ended
C32_GatherWaitsAndAttributes ==
    \A c \in DOMAIN co.cmds :
        (co.cmds[c].kind = "fleet" /\ co.cmds[c].status # "") =>
            /\ \A k \in DOMAIN co.cmds[c].jobs : co.cmds[c].jobs[k].pc = "done"
            /\ DOMAIN co.cmds[c].results = DOMAIN co.cmds[c].jobs
            /\ \A k \in DOMAIN co.cmds[c].jobs :
                  /\ co.cmds[c].jobs[k].dev = k
                  /\ co.cmds[c].results[k] = co.cmds[c].jobs[k].res
            /\ co.cmds[c].status =
                  StatusOf(\E k \in DOMAIN co.cmds[c].jobs : co.cmds[c].jobs[k].res = "true")

\* a fleet command over two devices has answered; the operation on the second
\* device ended before the one on the first, and only one of them succeeded
C32_Witness ==
    \E c \in DOMAIN co.cmds :
        /\ co.cmds[c].kind = "fleet"
        /\ co.cmds[c].status # ""
        /\ Len(co.cmds[c].jobs) = 2
        /\ Completed(co.order, c) = <<(<<c, 2>>), (<<c, 1>>)>>
        /\ co.cmds[c].results = <<"false", "true">>

\* every command has answered
AllAnswered == Len(co.cmds) > 0 /\ \A c \in DOMAIN co.cmds : co.cmds[c].status # ""

\* some power write was applied by device d and reported as a success
WrittenTo(d) ==
    \E c \in DOMAIN co.cmds : \E j \in DOMAIN co.cmds[c].jobs :
        co.cmds[c].jobs[j].dev = d /\ co.cmds[c].jobs[j].res = "true"

\* C35: once all concurrently running power commands have completed, the
\* cached power state of a device that was written to equals the power state
\* the device was last set to
C35_CacheFollowsLastWrite ==
    AllAnswered =>
        \A d \in DevIds :
            WrittenTo(d) => device_states[d] = (IF panelOn[d] THEN "on" ELSE "off")
====
